---------------------------- MODULE Spec2Model ----------------------------
(***************************************************************************)
(* Model of the car-listing pipeline: the field parsers, processCarData,   *)
(* calculatePriceStats, checkDataQuality, normalizeGradeName,              *)
(* categorizeTransmission and the CSV export of the data utilities         *)
(* (src/unnamed/part_000) and the derived collections, the trend and its   *)
(* forecast, of the dashboard component (CarAnalysisDashboard.jsx).        *)
(*                                                                         *)
(* Conventions.                                                            *)
(*  - A JavaScript value is a record [t, n, s]: t is its kind ("undef",    *)
(*    "null", "num", "nan", "str", "obj"), n the number and s the text.    *)
(*  - A number x is held as the integer x * Scale (tenths), so 659.9 is    *)
(*    6599 and the year 2019 is 20190.                                     *)
(*  - A text is a sequence of one-character strings.  The characters of    *)
(*    the source that are not ASCII are written "man" (U+4E07, ten         *)
(*    thousand), "yen" (U+5186); "k", "m" and "C" are themselves.          *)
(*  - A call that raises returns Throw.                                    *)
(***************************************************************************)
EXTENDS Integers, Sequences, FiniteSets, TLC

VARIABLES
    \* SpecParse and the other specifications of one function applied to one
    \* input
    arg,        \* the value handed to the function
    fn,         \* the function applied last ("none" before any)
    out,        \* what that function returned (a value or Throw)
    out2,       \* what a second call, or the next function, returned
    batch,      \* SpecIngest: the raw input handed to processCarData
    pc,         \* SpecIngest: "start", "processed", "reprocessed"
    listings,   \* SpecIngest: the result of processCarData(batch)
    listings2,  \* SpecIngest: the result of a second processCarData(batch)
    quality,    \* SpecIngest: checkDataQuality(listings)
    prices,     \* SpecStats: the collection handed to calculatePriceStats
    stats,      \* SpecStats: calculatePriceStats(prices), NoStats before the call
    statsFirst, \* SpecStats: the result for the collection in its first order
    \* Spec: the state of the CarAnalysisDashboard component
    rawData,                \* the listings of the last load that completed
    loading,
    pending,                \* the load in flight and what its closure captured
    overviewMode,
    timeScale,
    trendDateMode,
    selectedGrades,
    yearRange,
    mileageMax,
    priceRange,
    transmissionFilters,
    repairHistoryFilter,
    showNormalizedGrades,
    dataQuality,
    alerts,                 \* the alert dialogs shown so far
    draws,                  \* what getDateFromData drew in the last computation
                            \* of trendData, by listing id
    steps,                  \* the user's actions so far
    zone                    \* the browser's time zone, east or west of UTC

parseVars  == <<arg, fn, out, out2>>
ingestVars == <<batch, pc, listings, listings2, quality>>
statsVars  == <<prices, stats, statsFirst>>
filterVars ==
    <<selectedGrades, yearRange, mileageMax, priceRange, transmissionFilters,
      repairHistoryFilter, showNormalizedGrades>>
viewVars   == <<overviewMode, timeScale, trendDateMode>>
loadVars   == <<rawData, loading, pending, dataQuality, alerts>>
dashVars   == <<loadVars, viewVars, filterVars, draws, steps, zone>>

-----------------------------------------------------------------------------
(* JavaScript values *)

Scale == 10

Undef   == [t |-> "undef", n |-> 0, s |-> <<>>]
Null    == [t |-> "null",  n |-> 0, s |-> <<>>]
NaN     == [t |-> "nan",   n |-> 0, s |-> <<>>]
Obj     == [t |-> "obj",   n |-> 0, s |-> <<>>]
Throw   == [t |-> "throw", n |-> 0, s |-> <<>>]
Num(x)  == [t |-> "num",   n |-> x, s |-> <<>>]
Str(cs) == [t |-> "str",   n |-> 0, s |-> cs]

\* typeof v === 'number' (NaN is a number)
IsNumber(v) == v.t \in {"num", "nan"}
\* typeof v === 'string'
IsString(v) == v.t = "str"
\* the truthiness of v, as in !v and v || d
Truthy(v) ==
    CASE v.t = "num" -> v.n # 0
      [] v.t = "str" -> v.s # <<>>
      [] v.t = "obj" -> TRUE
      [] OTHER       -> FALSE
\* a || b
OrElse(a, b) == IF Truthy(a) THEN a ELSE b

-----------------------------------------------------------------------------
(* Texts and the regular expressions of the parsers *)

Digits == <<"0", "1", "2", "3", "4", "5", "6", "7", "8", "9">>
DigitSet == {Digits[i] : i \in 1..10}
DigitValues == [c \in DigitSet |-> (CHOOSE i \in 1..10 : Digits[i] = c) - 1]
IsDigit(c) == c \in DigitSet
DigitVal(c) == DigitValues[c]
\* the character class [0-9.]
IsNumChar(c) == IsDigit(c) \/ c = "."

\* s.includes(sub)
StartsAt(s, i, sub) ==
    /\ i + Len(sub) - 1 <= Len(s)
    /\ \A k \in 1..Len(sub) : s[i + k - 1] = sub[k]
Includes(s, sub) == \E i \in 1..(Len(s) + 1) : StartsAt(s, i, sub)
IndexOf(s, sub) ==
    IF Includes(s, sub)
    THEN CHOOSE i \in 1..(Len(s) + 1) :
            /\ StartsAt(s, i, sub)
            /\ \A j \in 1..(i - 1) : ~StartsAt(s, j, sub)
    ELSE 0

\* the end of the maximal run of characters of a class that starts at i
\* (the class is named: "digit" is \d, "num" is [0-9.], "space" is \s)
InClass(cls, c) ==
    CASE cls = "digit" -> IsDigit(c)
      [] cls = "num"   -> IsNumChar(c)
      [] cls = "space" -> c = " "
RECURSIVE RunEnd(_, _, _)
RunEnd(s, i, cls) ==
    IF i < Len(s) /\ InClass(cls, s[i + 1]) THEN RunEnd(s, i + 1, cls) ELSE i

\* s.match(/(CLASS+)SUFFIX/): the leftmost match starts where a run of the
\* class that is directly followed by the suffix begins; the group is greedy
\* and cannot give a character back, since the suffix starts outside the class.
\* The result is the captured group, or <<>> when there is no match.
MatchStarts(s, cls, suffix) ==
    {i \in 1..Len(s) :
        /\ InClass(cls, s[i])
        /\ StartsAt(s, RunEnd(s, i, cls) + 1, suffix)}
MatchRun(s, cls, suffix) ==
    LET starts == MatchStarts(s, cls, suffix) IN
    IF starts = {} THEN <<>>
    ELSE LET i == CHOOSE a \in starts : \A b \in starts : a <= b
         IN  SubSeq(s, i, RunEnd(s, i, cls))

\* s.match(/(\d{4})/): the first four digits in a row, or <<>>
MatchFourDigits(s) ==
    LET starts == {i \in 1..(Len(s) - 3) : \A k \in 0..3 : IsDigit(s[i + k])} IN
    IF starts = {} THEN <<>>
    ELSE LET i == CHOOSE a \in starts : \A b \in starts : a <= b
         IN  SubSeq(s, i, i + 3)

\* the value of a run of digits
RECURSIVE DigitsValue(_)
DigitsValue(ds) ==
    IF ds = <<>> THEN 0
    ELSE 10 * DigitsValue(SubSeq(ds, 1, Len(ds) - 1)) + DigitVal(ds[Len(ds)])

\* parseInt(ds) of a non-empty run of digits
ParseInt(ds) == Num(DigitsValue(ds) * Scale)

\* parseFloat(cs) of a non-empty run of [0-9.]: the longest prefix of the form
\* digits [. digits] that holds a digit; NaN when there is none.  The model's
\* texts carry at most one digit after the point, which Scale holds exactly.
ParseFloat(cs) ==
    LET intEnd  == IF cs # <<>> /\ IsDigit(cs[1]) THEN RunEnd(cs, 1, "digit") ELSE 0
        hasFrac == /\ intEnd + 2 <= Len(cs)
                   /\ cs[intEnd + 1] = "."
                   /\ IsDigit(cs[intEnd + 2])
    IN  IF intEnd = 0 /\ ~hasFrac THEN NaN
        ELSE Num(DigitsValue(SubSeq(cs, 1, intEnd)) * Scale
                 + (IF hasFrac THEN DigitVal(cs[intEnd + 2]) ELSE 0))


\* String(v) for the values the parsers stringify
RECURSIVE NatText(_)
NatText(k) == IF k < 10 THEN <<Digits[k + 1]>>
              ELSE NatText(k \div 10) \o <<Digits[(k % 10) + 1]>>
ObjectText == <<"[", "o", "b", "j", "e", "c", "t", " ", "O", "b", "j", "e", "c", "t", "]">>
JsString(v) ==
    CASE v.t = "str" -> v.s
      [] v.t = "num" ->
            LET a == IF v.n < 0 THEN 0 - v.n ELSE v.n
                whole == NatText(a \div Scale)
                frac  == IF a % Scale = 0 THEN <<>> ELSE <<".", Digits[(a % Scale) + 1]>>
            IN  (IF v.n < 0 THEN <<"-">> ELSE <<>>) \o whole \o frac
      [] v.t = "nan" -> <<"N", "a", "N">>
      [] v.t = "obj" -> ObjectText
      [] OTHER       -> <<>>

Pad2(k) == <<Digits[(k \div 10) + 1], Digits[(k % 10) + 1]>>

-----------------------------------------------------------------------------
(* The field parsers (src/unnamed/part_000) *)

PriceMin == 10
PriceMax == 3000
YearMin == 2010
YearMax == 2026
ManUnit == 10000

ManYen == <<"man", "yen">>
ManKm  == <<"man", "k", "m">>
Km     == <<"k", "m">>
CC     == <<"C", "C">>

\* parsePrice: a number passes through unchanged; a text must hold
\* /([0-9.]+)<man><yen>/ with a value in [10, 3000]
ParsePrice(priceStr) ==
    IF IsNumber(priceStr) THEN priceStr
    ELSE IF ~Truthy(priceStr) \/ ~IsString(priceStr) THEN Null
    ELSE LET m     == MatchRun(priceStr.s, "num", ManYen)
             price == ParseFloat(m)
         IN  IF /\ m # <<>>
                /\ price.t = "num"
                /\ price.n >= PriceMin * Scale
                /\ price.n <= PriceMax * Scale
             THEN price ELSE Null

\* (mutant) parseYear that lets a number through unchecked, as parsePrice does
ParseYear_NumberUnchecked(yearStr) ==
    IF IsNumber(yearStr) THEN yearStr
    ELSE IF ~Truthy(yearStr) THEN Null
    ELSE LET m    == MatchFourDigits(JsString(yearStr))
             year == ParseInt(m)
         IN  IF m # <<>> /\ year.n >= YearMin * Scale /\ year.n <= YearMax * Scale
             THEN year ELSE Null

\* parseYear: a number or the first four digits of the text, within [2010, 2026]
ParseYear(yearStr) ==
    IF IsNumber(yearStr)
    THEN IF /\ yearStr.t = "num"
            /\ yearStr.n >= YearMin * Scale
            /\ yearStr.n <= YearMax * Scale
         THEN yearStr ELSE Null
    ELSE IF ~Truthy(yearStr) THEN Null
    ELSE LET m    == MatchFourDigits(JsString(yearStr))
             year == ParseInt(m)
         IN  IF m # <<>> /\ year.n >= YearMin * Scale /\ year.n <= YearMax * Scale
             THEN year ELSE Null

\* parseMileage: a number >= 0, or a text "<x><man>km" (x * 10000) or "<x>km"
ParseMileage(mileageStr) ==
    IF IsNumber(mileageStr)
    THEN IF mileageStr.t = "num" /\ mileageStr.n >= 0 THEN mileageStr ELSE Null
    ELSE IF ~Truthy(mileageStr) THEN Null
    ELSE LET str == JsString(mileageStr) IN
         IF Includes(str, ManKm)
         THEN LET m == MatchRun(str, "num", ManKm)
                  f == ParseFloat(m)
              IN  IF m # <<>> /\ f.t = "num" /\ f.n * ManUnit >= 0
                  THEN Num(f.n * ManUnit) ELSE Null
         ELSE IF Includes(str, Km)
         THEN LET m == MatchRun(str, "num", Km)
                  f == ParseFloat(m)
              IN  IF m # <<>> /\ f.t = "num" /\ f.n >= 0 THEN f ELSE Null
         ELSE Null

\* parseDisplacement: the digits before "CC"
ParseDisplacement(displacementStr) ==
    IF ~Truthy(displacementStr) THEN Null
    ELSE LET m == MatchRun(JsString(displacementStr), "digit", CC)
         IN  IF m # <<>> THEN ParseInt(m) ELSE Null

\* What one call draws from its environment: Math.random() twice (month in
\* 1..6, day in 1..28) and the clock's date, new Date().toISOString().
Date_2025_06_18 == <<"2", "0", "2", "5", "-", "0", "6", "-", "1", "8">>
Date_2025_06_19 == <<"2", "0", "2", "5", "-", "0", "6", "-", "1", "9">>
Entropy ==
    { [month |-> 1, day |-> 1,  today |-> Date_2025_06_18],
      [month |-> 6, day |-> 28, today |-> Date_2025_06_19] }

\* `2025-${month padded}-${day padded}`
RandomDate(e) == <<"2", "0", "2", "5", "-">> \o Pad2(e.month) \o <<"-">> \o Pad2(e.day)

\* /^\d{4}-\d{2}-\d{2}$/.test(s)
IsIsoDate(s) ==
    /\ Len(s) = 10
    /\ \A i \in {1, 2, 3, 4, 6, 7, 9, 10} : IsDigit(s[i])
    /\ s[5] = "-" /\ s[8] = "-"

\* parseDate: a missing value gets a random date of 2025; a value that is not
\* a text has no includes method, and the call raises; a text holding "T" is
\* cut before it; a YYYY-MM-DD text is kept; any other text gets today's date
ParseDate(dateStr, e) ==
    IF ~Truthy(dateStr) THEN Str(RandomDate(e))
    ELSE IF ~IsString(dateStr) THEN Throw
    ELSE IF Includes(dateStr.s, <<"T">>)
         THEN Str(SubSeq(dateStr.s, 1, IndexOf(dateStr.s, <<"T">>) - 1))
    ELSE IF IsIsoDate(dateStr.s) THEN dateStr
    ELSE Str(e.today)

-----------------------------------------------------------------------------
(* normalizeGradeName (src/unnamed/part_000).  The katakana words of the     *)
(* patterns are single characters of the model's texts: "carbon_exterior",   *)
(* "package", "performance", "anniversary", "final", "edition", "emotional", *)
(* "touring"; "base" is the default label.                                   *)

IsSpace(c) == c = " "
IsBracket(c) == c \in {"(", ")", "[", "]", "fw(", "fw)", "lb(", "lb)"}
UpperCase ==
    << "A", "B", "C", "D", "E", "F", "G", "H", "I", "J", "K", "L",
       "M", "N", "O", "P", "Q", "R", "S", "T", "U", "V", "W", "X",
       "Y", "Z" >>
LowerCase ==
    << "a", "b", "c", "d", "e", "f", "g", "h", "i", "j", "k", "l",
       "m", "n", "o", "p", "q", "r", "s", "t", "u", "v", "w", "x",
       "y", "z" >>
Lower(c) ==
    IF \E i \in 1..Len(UpperCase) : UpperCase[i] = c
    THEN LowerCase[CHOOSE i \in 1..Len(UpperCase) : UpperCase[i] = c]
    ELSE c

\* the literal lit stands at s[i..], letter case ignored
StartsAtCI(s, i, lit) ==
    /\ i + Len(lit) - 1 <= Len(s)
    /\ \A k \in 1..Len(lit) : Lower(s[i + k - 1]) = Lower(lit[k])

\* parts[1] \s+ parts[2] \s+ ... matches s from position i
RECURSIVE MatchPartsAt(_, _, _)
MatchPartsAt(s, i, parts) ==
    /\ StartsAtCI(s, i, Head(parts))
    /\ \/ Len(parts) = 1
       \/ LET j == i + Len(Head(parts)) IN
            /\ j <= Len(s)
            /\ IsSpace(s[j])
            /\ MatchPartsAt(s, RunEnd(s, j, "space") + 1, Tail(parts))
\* pattern.test(s), the pattern unanchored
PatternTest(s, parts) == \E i \in 1..Len(s) : MatchPartsAt(s, i, parts)

RC == <<"R", "C">>
BaseLabel == <<"base">>
rcfPatterns == <<
    [pattern |-> <<RC, <<"carbon_exterior", "package">>>>,
     normalized |-> <<"carbon_exterior">>],
    [pattern |-> <<RC, <<"performance", "package">>>>,
     normalized |-> <<"performance">>],
    [pattern |-> <<RC, <<"F">>, <<"1", "0", "t", "h">>, <<"anniversary">>>>,
     normalized |-> <<"1", "0", "t", "h", " ", "anniversary">>],
    [pattern |-> <<RC, <<"final">>, <<"edition">>>>,
     normalized |-> <<"final", " ", "edition">>],
    [pattern |-> <<RC, <<"emotional">>, <<"touring">>>>,
     normalized |-> <<"emotional", " ", "touring">>],
    [pattern |-> <<RC, <<"5", ".", "0">>>>,
     normalized |-> <<"5", ".", "0">>] >>

\* s.replace(/^RC\s+/i, '')
StripSeries(s) ==
    IF StartsAtCI(s, 1, RC) /\ Len(s) >= 3 /\ IsSpace(s[3])
    THEN SubSeq(s, RunEnd(s, 3, "space") + 1, Len(s))
    ELSE s
\* s.replace(/[brackets]/g, '')
StripBrackets(s) == SelectSeq(s, LAMBDA c : ~IsBracket(c))
\* s.trim()
Trim(s) ==
    LET keep == {i \in 1..Len(s) : ~IsSpace(s[i])} IN
    IF keep = {} THEN <<>>
    ELSE SubSeq(s, CHOOSE a \in keep : \A b \in keep : a <= b,
                   CHOOSE a \in keep : \A b \in keep : a >= b)

\* (mutant) the last pattern that matches gives the label
NormalizeGradeName_LastMatch(gradeName) ==
    IF ~Truthy(gradeName) THEN Str(BaseLabel)
    ELSE LET s    == JsString(gradeName)
             hits == {k \in 1..Len(rcfPatterns) : PatternTest(s, rcfPatterns[k].pattern)}
         IN  IF hits # {}
             THEN Str(rcfPatterns[CHOOSE a \in hits : \A b \in hits : a >= b].normalized)
             ELSE IF ~IsString(gradeName) THEN Throw
             ELSE LET cleaned == Trim(StripBrackets(StripSeries(s)))
                  IN  IF cleaned = <<>> THEN Str(BaseLabel) ELSE Str(cleaned)
\* normalizeGradeName: the label of the first pattern that matches, else the
\* cleaned text, else the default label.  A value that is not a text is
\* coerced by pattern.test but has no replace method, and the call raises.
NormalizeGradeName(gradeName) ==
    IF ~Truthy(gradeName) THEN Str(BaseLabel)
    ELSE LET s    == JsString(gradeName)
             hits == {k \in 1..Len(rcfPatterns) : PatternTest(s, rcfPatterns[k].pattern)}
         IN  IF hits # {}
             THEN Str(rcfPatterns[CHOOSE a \in hits : \A b \in hits : a <= b].normalized)
             ELSE IF ~IsString(gradeName) THEN Throw
             ELSE LET cleaned == Trim(StripBrackets(StripSeries(s)))
                  IN  IF cleaned = <<>> THEN Str(BaseLabel) ELSE Str(cleaned)

-----------------------------------------------------------------------------
(* calculatePriceStats (src/unnamed/part_000).  The collection is [kind,   *)
(* items]; only kind "array" is an array.  Results are in tenths.           *)

\* Math.round(x * 10) / 10 of x = num / den (num >= 0, den > 0), in tenths
\* when num and den are in the same unit
RoundDiv(num, den) == (2 * num + den) \div (2 * den)

ZeroStats == [mean |-> 0, min |-> 0, max |-> 0, median |-> 0, count |-> 0]
NoStats   == [mean |-> 0, min |-> 0, max |-> 0, median |-> 0, count |-> 0 - 1]

\* p !== null && p !== undefined && !isNaN(p) && typeof p === 'number' && p > 0
ValidPrice(p) == p.t = "num" /\ p.n > 0

RECURSIVE SumSeq(_)
SumSeq(xs) == IF xs = <<>> THEN 0 ELSE Head(xs) + SumSeq(Tail(xs))

\* [...xs].sort((a, b) => a - b)
RECURSIVE InsertAsc(_, _)
InsertAsc(sorted, x) ==
    IF sorted = <<>> THEN <<x>>
    ELSE IF x < Head(sorted) THEN <<x>> \o sorted
    ELSE <<Head(sorted)>> \o InsertAsc(Tail(sorted), x)
RECURSIVE SortAsc(_)
SortAsc(xs) == IF xs = <<>> THEN <<>> ELSE InsertAsc(SortAsc(Tail(xs)), Head(xs))

MinOf(xs) == CHOOSE m \in {xs[i] : i \in 1..Len(xs)} : \A i \in 1..Len(xs) : m <= xs[i]
MaxOf(xs) == CHOOSE m \in {xs[i] : i \in 1..Len(xs)} : \A i \in 1..Len(xs) : m >= xs[i]

\* the median before rounding is sorted[n/2 - 1] + sorted[n/2] over 2 for an
\* even count (0-based), else sorted[floor(n/2)]; then Math.round(x * 10) / 10
MedianUpperOnly(sorted) == sorted[(Len(sorted) \div 2) + 1]
Median(sorted) ==
    IF Len(sorted) % 2 = 0
    THEN RoundDiv(sorted[Len(sorted) \div 2] + sorted[(Len(sorted) \div 2) + 1], 2)
    ELSE sorted[(Len(sorted) \div 2) + 1]

CalculatePriceStats(ps) ==
    IF ps.kind # "array" \/ Len(ps.items) = 0 THEN ZeroStats
    ELSE LET valid       == SelectSeq(ps.items, ValidPrice)
             validPrices == [i \in 1..Len(valid) |-> valid[i].n]
         IN  IF Len(validPrices) = 0 THEN ZeroStats
             ELSE [ mean   |-> RoundDiv(SumSeq(validPrices), Len(validPrices)),
                    min    |-> MinOf(validPrices),
                    max    |-> MaxOf(validPrices),
                    median |-> Median(SortAsc(validPrices)),
                    count  |-> Len(validPrices) ]

-----------------------------------------------------------------------------
(* Input texts and raw rows *)

RepairNone   == <<"nashi">>
RepairExists == <<"ari">>

T_659_9_ManYen == <<"6", "5", "9", ".", "9", "man", "yen">>
T_5_ManYen == <<"5", "man", "yen">>
T_3500_ManYen == <<"3", "5", "0", "0", "man", "yen">>
T_ManYen == <<"man", "yen">>
T_Dot_ManYen == <<".", "man", "yen">>
T_2019_R01 == <<"2", "0", "1", "9", "(", "R", "0", "1", ")">>
T_2009 == <<"2", "0", "0", "9">>
T_R01 == <<"R", "0", "1">>
T_5_3_ManKm == <<"5", ".", "3", "man", "k", "m">>
T_53000_Km == <<"5", "3", "0", "0", "0", "k", "m">>
T_Km == <<"k", "m">>
T_Dot_ManKm == <<".", "man", "k", "m">>
T_5000_CC == <<"5", "0", "0", "0", "C", "C">>
T_IsoDateTime == <<"2", "0", "2", "5", "-", "0", "6", "-", "1", "7", "T", "0", "9">>
T_IsoDate == <<"2", "0", "2", "5", "-", "0", "6", "-", "1", "8">>
T_SlashDate == <<"2", "0", "2", "5", "/", "0", "6", "/", "1", "8">>
T_0_9 == <<"0", ".", "9">>
T_x == <<"x">>

G_RC_50      == <<"R", "C", " ", "5", ".", "0">>
G_rc_50_x    == <<"r", "c", " ", " ", "5", ".", "0", " ", "x">>
G_RC_Carbon  == <<"R", "C", " ", "carbon_exterior", "package">>
G_Paren_S    == <<"(", "S", ")">>
Tx_AT        == <<"A", "T">>

\* the raw values a field can hold: texts in and out of the documented
\* formats, numbers in and out of range, NaN, null, undefined, an object
PriceValues ==
    { Str(T_659_9_ManYen), Str(T_5_ManYen), Str(T_3500_ManYen), Str(T_Dot_ManYen),
      Num(6599), Num(50), Num(50000), Num(0 - 1000), Undef }
YearValues ==
    { Str(T_2019_R01), Str(T_2009), Str(T_R01), Num(20150), Num(20300), Undef }
MileageValues ==
    { Str(T_5_3_ManKm), Str(T_53000_Km), Str(T_Km), Num(0), Num(0 - 10), Undef }
DateValues ==
    { Str(T_IsoDateTime), Str(T_IsoDate), Str(T_SlashDate), Undef,
      Num(202506180), Obj }
GradeValues == { Str(G_RC_50), Str(G_RC_Carbon), Num(50), Undef }
OtherValues ==
    { Str(T_ManYen), Str(T_Dot_ManKm), Str(T_5000_CC), Str(T_0_9), Str(T_x),
      Str(<<>>), Num(0), NaN, Null }
InputValues ==
    PriceValues \cup YearValues \cup MileageValues \cup DateValues
        \cup GradeValues \cup OtherValues

NotCalled == [t |-> "none", n |-> 0, s |-> <<>>]
Parsers == {"parsePrice", "parseYear", "parseMileage", "parseDisplacement", "parseDate"}
Apply(f, v, e) ==
    CASE f = "parsePrice"        -> ParsePrice(v)
      [] f = "parseYear"         -> ParseYear(v)
      [] f = "parseMileage"      -> ParseMileage(v)
      [] f = "parseDisplacement" -> ParseDisplacement(v)
      [] f = "parseDate"         -> ParseDate(v, e)

\* a well-formed row; the pool varies one field of it at a time
M_RCF == <<"R", "C", " ", "F">>
M_Unknown == <<"U", "n", "k", "n", "o", "w", "n">>
U_Source == <<"/", "l", "i", "s", "t">>
U_Vehicle == <<"/", "c", "a", "r", "/", "1">>
BaseRow ==
    [ nul |-> FALSE,
      price |-> Str(T_659_9_ManYen), year |-> Str(T_2019_R01),
      mileage |-> Str(T_5_3_ManKm), displacement |-> Str(T_5000_CC),
      normGrade |-> Undef, grade |-> Str(G_RC_50),
      capturedAt |-> Str(T_IsoDateTime), matchScore |-> Str(T_0_9),
      repair |-> Str(RepairNone), transmission |-> Str(Tx_AT),
      modelName |-> Str(M_RCF), sourceUrl |-> Str(U_Source), vehicleUrl |-> Str(U_Vehicle) ]
NullRow ==
    [ nul |-> TRUE,
      price |-> Undef, year |-> Undef, mileage |-> Undef, displacement |-> Undef,
      normGrade |-> Undef, grade |-> Undef, capturedAt |-> Undef,
      matchScore |-> Undef, repair |-> Undef, transmission |-> Undef,
      modelName |-> Undef, sourceUrl |-> Undef, vehicleUrl |-> Undef ]
RowPool ==
    {[BaseRow EXCEPT !.price = v] : v \in PriceValues}
    \cup {[BaseRow EXCEPT !.year = v] : v \in YearValues}
    \cup {[BaseRow EXCEPT !.mileage = v] : v \in MileageValues}
    \cup {[BaseRow EXCEPT !.capturedAt = v] : v \in DateValues}
    \cup {[BaseRow EXCEPT !.grade = v] : v \in GradeValues}
    \cup {[BaseRow EXCEPT !.displacement = Undef, !.matchScore = Num(15),
                          !.repair = Undef, !.transmission = Undef],
          NullRow}

\* the rows of the files the dashboard loads: Row_A and Row_A2 agree on price,
\* year, mileage and normalised grade and differ in grade, transmission and
\* repair history; Row_S is dearer, older, captured a day later; Row_NoDate
\* has no capture time and no transmission
G_RC_x  == <<"R", "C", " ", "x">>
Tx_6MT  == <<"6", "M", "T">>
Tx_CVT  == <<"C", "V", "T">>
Row_A      == BaseRow
Row_A2     == [BaseRow EXCEPT !.grade = Str(G_rc_50_x), !.transmission = Str(Tx_6MT),
                              !.repair = Str(RepairExists)]
Row_S      == [BaseRow EXCEPT !.grade = Str(G_Paren_S), !.price = Num(9000),
                              !.year = Num(20150), !.capturedAt = Str(T_IsoDate),
                              !.transmission = Str(Tx_CVT)]
Row_NoDate == [BaseRow EXCEPT !.grade = Str(G_RC_x), !.capturedAt = Undef,
                              !.transmission = Undef]
DashRows == {Row_A, Row_A2, Row_S, Row_NoDate}

\* the rows of SpecExport: texts that need quoting, and match scores
T_0 == <<"0">>
T_1_5 == <<"1", ".", "5">>
M_Comma == <<"R", "C", ",", " ", "F">>
M_TwoLines == <<"R", "C", "\n", "F">>
G_Quoted == <<"R", "C", " ", "\"", "F", "\"">>
ExportRows ==
    {BaseRow,
     [BaseRow EXCEPT !.modelName = Str(M_Comma)],
     [BaseRow EXCEPT !.modelName = Str(M_TwoLines)],
     [BaseRow EXCEPT !.grade = Str(G_Quoted)],
     [BaseRow EXCEPT !.price = Num(6599), !.modelName = Undef, !.vehicleUrl = Undef,
                     !.matchScore = Undef],
     [BaseRow EXCEPT !.year = Num(20300)]}
    \cup {[BaseRow EXCEPT !.matchScore = v] :
            v \in {Str(T_0), Num(0), Num(5), Num(Scale), Num(15), Num(0 - 5),
                   Str(T_1_5), Str(T_x)}}

\* the rows of SpecDerived: years around the clock's year, mileages and
\* displacements that are zero or missing
T_0_Km == <<"0", "k", "m">>
T_0_CC == <<"0", "C", "C">>
DerivedRows ==
    {[BaseRow EXCEPT !.price = p, !.year = y, !.mileage = m, !.displacement = d] :
        p \in {Str(T_659_9_ManYen), Num(50)},
        y \in {Str(T_2019_R01), Num(20150), Num(20250), Num(20260), Str(T_2009)},
        m \in {Str(T_5_3_ManKm), Num(0), Str(T_0_Km), Undef},
        d \in {Str(T_5000_CC), Str(T_0_CC), Undef}}

\* the rows of SpecReset: listings ingestion keeps whose year, price or
\* mileage lies outside the ranges the reset button sets
Row_Old   == [BaseRow EXCEPT !.year = Num(20120)]
Row_Dear  == [BaseRow EXCEPT !.price = Num(25000)]
Row_Worn  == [BaseRow EXCEPT !.mileage = Num(2500000)]
ResetRows == {Row_Old, Row_Dear, Row_Worn}

-----------------------------------------------------------------------------
(* processCarData (src/unnamed/part_000).  A raw row is a record of its     *)
(* fields: price (shiharai-sougaku), year (nenshiki), mileage (soukou-      *)
(* kyori), displacement (haikiryou), normGrade (seiki-grade), grade,        *)
(* capturedAt (shutoku-nichiji), matchScore (matching-seido), repair        *)
(* (shuufukureki), transmission (mission), modelName (shashu-mei),          *)
(* sourceUrl, vehicleUrl; nul says that the array element is null or        *)
(* undefined instead of an object.  A listing echoes the raw price, year,   *)
(* mileage and displacement as rawPrice, rawYear, rawMileage and            *)
(* rawDisplacement, and the raw capturedAt as capturedAt.  The quotients    *)
(* pricePerCC and mileagePerYear are held to the nearest tenth.             *)

DefaultMatchScore == 8

\* parseFloat(v): the value is first turned into text
ParseFloatOf(v) == IF IsNumber(v) THEN v ELSE ParseFloat(JsString(v))

\* the body of the try block raises: a field is read of null, parseDate or
\* normalizeGradeName raises
RowThrows(row, e) ==
    \/ row.nul
    \/ NormalizeGradeName(OrElse(row.normGrade, OrElse(row.grade, Str(<<>>)))) = Throw
    \/ ParseDate(row.capturedAt, e) = Throw

\* new Date().getFullYear(): the year of the clock's date
CurrentYear(e) == DigitsValue(SubSeq(e.today, 1, 4))

\* a / b of two numbers held in the same unit, to the nearest tenth: Infinity
\* or NaN when b is 0.  A whole divisor is reduced first, which keeps the
\* products small.
Infinity == [t |-> "inf", n |-> 0, s |-> <<>>]
JsDiv(a, b) ==
    IF b = 0 THEN (IF a = 0 THEN NaN ELSE Infinity)
    ELSE IF b % Scale = 0 THEN Num(RoundDiv(a, b \div Scale))
    ELSE Num(RoundDiv(a * Scale, b))

YenPerMan == 10000

\* price && displacement ? (price * 10000) / displacement : null
PricePerCC(price, displacement) ==
    IF Truthy(price) /\ Truthy(displacement)
    THEN JsDiv(price.n * YenPerMan, displacement.n)
    ELSE Null
\* year ? (new Date().getFullYear() - year) : null
AgeInYears(year, e) ==
    IF Truthy(year) THEN Num(CurrentYear(e) * Scale - year.n) ELSE Null
\* year && mileage ? mileage / Math.max(1, new Date().getFullYear() - year) : null
MileagePerYear(year, mileage, e) ==
    IF Truthy(year) /\ Truthy(mileage)
    THEN LET age == CurrentYear(e) * Scale - year.n
         IN  JsDiv(mileage.n, IF age > Scale THEN age ELSE Scale)
    ELSE Null

\* the object the map callback returns for a row that does not raise
RowListing(row, index, e) ==
    LET score == ParseFloatOf(row.matchScore) IN
    [ id           |-> index,
      origGrade    |-> OrElse(row.grade, Str(<<>>)),
      normGrade    |-> NormalizeGradeName(
                           OrElse(row.normGrade, OrElse(row.grade, Str(<<>>)))),
      price        |-> ParsePrice(row.price),
      year         |-> ParseYear(row.year),
      mileage      |-> ParseMileage(row.mileage),
      repair       |-> OrElse(row.repair, Str(RepairNone)),
      transmission |-> OrElse(row.transmission, Str(<<>>)),
      displacement |-> ParseDisplacement(row.displacement),
      matchScore   |-> IF /\ Truthy(row.matchScore)
                          /\ score.t = "num" /\ score.n >= 0 /\ score.n <= Scale
                       THEN score ELSE Num(DefaultMatchScore),
      capturedAt   |-> OrElse(row.capturedAt, Str(<<>>)),
      date         |-> ParseDate(row.capturedAt, e),
      modelName    |-> OrElse(row.modelName, Str(M_Unknown)),
      rawPrice     |-> OrElse(row.price, Str(<<>>)),
      rawYear      |-> OrElse(row.year, Str(<<>>)),
      rawMileage   |-> OrElse(row.mileage, Str(<<>>)),
      rawDisplacement |-> OrElse(row.displacement, Str(<<>>)),
      sourceUrl    |-> OrElse(row.sourceUrl, Str(<<>>)),
      vehicleUrl   |-> OrElse(row.vehicleUrl, OrElse(row.sourceUrl, Str(<<>>))),
      pricePerCC   |-> PricePerCC(ParsePrice(row.price),
                                  ParseDisplacement(row.displacement)),
      ageInYears   |-> AgeInYears(ParseYear(row.year), e),
      mileagePerYear |-> MileagePerYear(ParseYear(row.year),
                                        ParseMileage(row.mileage), e) ]

\* (mutant) the filter does not ask for a year
KeepItem_YearOptional(item) ==
    /\ item.price # Null
    /\ item.mileage # Null
    /\ item.price.t = "num" /\ item.price.n > 0
    /\ item.mileage.t = "num" /\ item.mileage.n >= 0
\* the filter after the map: required fields present, price > 0, mileage >= 0
KeepItem(item) ==
    /\ item.price # Null
    /\ item.year # Null
    /\ item.mileage # Null
    /\ item.price.t = "num" /\ item.price.n > 0
    /\ item.mileage.t = "num" /\ item.mileage.n >= 0

\* What the callback does with each row of the pool under each draw, worked
\* out once: whether it raises and, if not, the listing (with id 0).
RowTable ==
    [row \in RowPool \cup DashRows \cup ExportRows \cup DerivedRows \cup ResetRows |->
        [e \in Entropy |->
            [ throws |-> RowThrows(row, e),
              item   |-> IF RowThrows(row, e) THEN RowListing(BaseRow, 0, e)
                         ELSE RowListing(row, 0, e) ]]]
Throws(row, e) == RowTable[row][e].throws
Listing(row, index, e) == [RowTable[row][e].item EXCEPT !.id = index]

\* (mutant) a row that raises ends the batch: no try/catch around the callback
RECURSIVE ProcessRows_AbortOnThrow(_, _, _)
ProcessRows_AbortOnThrow(rows, k, ent) ==
    IF k > Len(rows) THEN <<>>
    ELSE IF Throws(rows[k], ent[k]) THEN <<>>
    ELSE LET item == Listing(rows[k], k - 1, ent[k])
             rest == ProcessRows_AbortOnThrow(rows, k + 1, ent)
         IN  IF KeepItem(item) THEN <<item>> \o rest ELSE rest

\* rows[k..] mapped and filtered; ent[k] is what the k-th callback draws
RECURSIVE ProcessRows(_, _, _)
ProcessRows(rows, k, ent) ==
    IF k > Len(rows) THEN <<>>
    ELSE LET rest == ProcessRows(rows, k + 1, ent) IN
         IF Throws(rows[k], ent[k]) THEN rest
         ELSE LET item == Listing(rows[k], k - 1, ent[k]) IN
              IF KeepItem(item) THEN <<item>> \o rest ELSE rest

\* processCarData(raw): the argument raw is [kind, rows]; only kind "array" is an array
\* The result is ArrayOf(items); Thrown stands for a call that raises.
ArrayOf(items) == [t |-> "array", items |-> items]
Thrown == [t |-> "throw", items |-> <<>>]
\* (mutant) no Array.isArray guard: raw.map is not a function
ProcessCarData_NoArrayCheck(raw, ent) ==
    IF raw.kind # "array" THEN Thrown
    ELSE ArrayOf(ProcessRows(raw.rows, 1, ent))
ProcessCarData(raw, ent) ==
    IF raw.kind # "array" THEN ArrayOf(<<>>)
    ELSE ArrayOf(ProcessRows(raw.rows, 1, ent))


-----------------------------------------------------------------------------
(* checkDataQuality (src/unnamed/part_000) *)

PriceIssue(item) ==
    ~Truthy(item.price) \/ ~IsNumber(item.price) \/ ~(item.price.n > 0)
YearIssue(item) ==
    \/ ~Truthy(item.year) \/ ~IsNumber(item.year)
    \/ item.year.n < YearMin * Scale \/ item.year.n > YearMax * Scale
\* (mutant) a mileage of 0 counts as missing
MileageIssue_ZeroMissing(item) ==
    \/ ~Truthy(item.mileage) \/ ~IsNumber(item.mileage)
    \/ (item.mileage.t = "num" /\ item.mileage.n < 0)
MileageIssue(item) ==
    \/ item.mileage.t \in {"null", "undef"} \/ ~IsNumber(item.mileage)
    \/ (item.mileage.t = "num" /\ item.mileage.n < 0)
GradeIssue(item) == ~Truthy(item.normGrade) /\ ~Truthy(item.origGrade)
HasIssue(item) ==
    PriceIssue(item) \/ YearIssue(item) \/ MileageIssue(item) \/ GradeIssue(item)

\* checkDataQuality(data): data is the items of an array; qualityScore is in
\* tenths of a percent point
CheckDataQuality(data) ==
    IF Len(data) = 0
    THEN [ totalCount |-> 0, validCount |-> 0, qualityScore |-> 0,
           issues |-> <<"no data">> ]
    ELSE LET priceIssues   == Cardinality({i \in 1..Len(data) : PriceIssue(data[i])})
             yearIssues    == Cardinality({i \in 1..Len(data) : YearIssue(data[i])})
             mileageIssues == Cardinality({i \in 1..Len(data) : MileageIssue(data[i])})
             gradeIssues   == Cardinality({i \in 1..Len(data) : GradeIssue(data[i])})
             validCount    == Cardinality({i \in 1..Len(data) : ~HasIssue(data[i])})
             issues ==
                 (IF priceIssues > 0 THEN <<"price">> ELSE <<>>)
                 \o (IF yearIssues > 0 THEN <<"year">> ELSE <<>>)
                 \o (IF mileageIssues > 0 THEN <<"mileage">> ELSE <<>>)
                 \o (IF gradeIssues > 0 THEN <<"grade">> ELSE <<>>)
         IN  [ totalCount |-> Len(data), validCount |-> validCount,
               qualityScore |-> RoundDiv(validCount * 100 * Scale, Len(data)),
               issues |-> IF issues # <<>> THEN issues ELSE <<"no issues">>,
               details |-> [priceIssues |-> priceIssues, yearIssues |-> yearIssues,
                            mileageIssues |-> mileageIssues,
                            gradeIssues |-> gradeIssues] ]
NoQuality == [ totalCount |-> 0 - 1, validCount |-> 0, qualityScore |-> 0,
               issues |-> <<>>,
               details |-> [priceIssues |-> 0, yearIssues |-> 0,
                            mileageIssues |-> 0, gradeIssues |-> 0] ]

-----------------------------------------------------------------------------
(* convertToLegacyFormat and exportToCSV (src/unnamed/part_000).  A legacy
   record is a record of the model with one field for each key of the
   source; LegacyKeys is the order of the keys, which is the order of the
   columns.  "model" is the key whose value is the fixed text "no_info";
   "bom" is the byte-order mark U+FEFF. *)

LegacyKeys ==
    << "modelName", "model", "grade", "normGrade", "rawPrice", "rawYear",
       "rawMileage", "repair", "transmission", "rawDisplacement", "matchScore",
       "capturedAt", "sourceUrl", "vehicleUrl" >>
NoInfo == <<"no_info">>
Empty == Str(<<>>)

\* (mutant) the match score is written as it is, default or not
LegacyRecord_ScoreAsIs(item) ==
    [ modelName       |-> OrElse(item.modelName, Empty),
      model           |-> Str(NoInfo),
      grade           |-> OrElse(item.origGrade, Empty),
      normGrade       |-> OrElse(item.normGrade, Empty),
      rawPrice        |-> OrElse(item.rawPrice, Empty),
      rawYear         |-> OrElse(item.rawYear, Empty),
      rawMileage      |-> OrElse(item.rawMileage, Empty),
      repair          |-> OrElse(item.repair, Str(RepairNone)),
      transmission    |-> OrElse(item.transmission, Empty),
      rawDisplacement |-> OrElse(item.rawDisplacement, Empty),
      matchScore      |-> item.matchScore,
      capturedAt      |-> OrElse(item.capturedAt, Empty),
      sourceUrl       |-> OrElse(item.sourceUrl, Empty),
      vehicleUrl      |-> OrElse(item.vehicleUrl, Empty) ]
LegacyRecord(item) ==
    [ modelName       |-> OrElse(item.modelName, Empty),
      model           |-> Str(NoInfo),
      grade           |-> OrElse(item.origGrade, Empty),
      normGrade       |-> OrElse(item.normGrade, Empty),
      rawPrice        |-> OrElse(item.rawPrice, Empty),
      rawYear         |-> OrElse(item.rawYear, Empty),
      rawMileage      |-> OrElse(item.rawMileage, Empty),
      repair          |-> OrElse(item.repair, Str(RepairNone)),
      transmission    |-> OrElse(item.transmission, Empty),
      rawDisplacement |-> OrElse(item.rawDisplacement, Empty),
      matchScore      |-> OrElse(item.matchScore, Num(DefaultMatchScore)),
      capturedAt      |-> OrElse(item.capturedAt, Empty),
      sourceUrl       |-> OrElse(item.sourceUrl, Empty),
      vehicleUrl      |-> OrElse(item.vehicleUrl, Empty) ]

\* webData is what processCarData returned, or anything else
ConvertToLegacyFormat(webData) ==
    IF webData.t # "array" THEN <<>>
    ELSE [i \in 1..Len(webData.items) |-> LegacyRecord(webData.items[i])]

HasChar(s, c) == \E i \in 1..Len(s) : s[i] = c
\* stringValue.replace(/"/g, '""')
RECURSIVE DoubleQuotes(_)
DoubleQuotes(s) ==
    IF s = <<>> THEN <<>>
    ELSE (IF Head(s) = "\"" THEN <<"\"", "\"">> ELSE <<Head(s)>>) \o DoubleQuotes(Tail(s))
\* xs.join(sep)
RECURSIVE Join(_, _)
Join(xs, sep) ==
    IF xs = <<>> THEN <<>>
    ELSE IF Len(xs) = 1 THEN xs[1]
    ELSE xs[1] \o <<sep>> \o Join(Tail(xs), sep)

\* (mutant) a value with a comma is written without quotes
CsvField_CommaUnquoted(value) ==
    IF value.t \in {"null", "undef"} THEN <<>>
    ELSE LET stringValue == JsString(value) IN
         IF HasChar(stringValue, "\"") \/ HasChar(stringValue, "\n")
         THEN <<"\"">> \o DoubleQuotes(stringValue) \o <<"\"">>
         ELSE stringValue
\* one cell of the body
CsvField(value) ==
    IF value.t \in {"null", "undef"} THEN <<>>
    ELSE LET stringValue == JsString(value) IN
         IF HasChar(stringValue, ",") \/ HasChar(stringValue, "\"")
            \/ HasChar(stringValue, "\n")
         THEN <<"\"">> \o DoubleQuotes(stringValue) \o <<"\"">>
         ELSE stringValue

NoFile == [emitted |-> FALSE, text |-> <<>>]
\* exportToCSV(data): data is a sequence of legacy records, its headers are
\* the keys of the first; the text is what the Blob holds
ExportToCSV(data) ==
    IF Len(data) = 0 THEN NoFile
    ELSE LET headers == LegacyKeys
             headerLine == Join([h \in 1..Len(headers) |-> <<headers[h]>>], ",")
             line(row) == Join([h \in 1..Len(headers) |-> CsvField(row[headers[h]])], ",")
             csvContent ==
                 Join(<<headerLine>> \o [r \in 1..Len(data) |-> line(data[r])], "\n")
         IN  [emitted |-> TRUE, text |-> <<"bom">> \o csvContent]

-----------------------------------------------------------------------------
(* categorizeTransmission (src/unnamed/part_000).  "manual_kana" and        *)
(* "automatic_kana" are the katakana words of the source.                   *)

Categories == {"AT", "CVT", "MT", "other"}
LowerText(s) == [i \in 1..Len(s) |-> Lower(s[i])]
\* (mutant) the automatic tokens are looked for before the manual ones
CategorizeTransmission_AutomaticFirst(transmission) ==
    IF ~Truthy(transmission) \/ ~IsString(transmission) THEN "other"
    ELSE LET trans == LowerText(transmission.s) IN
         IF Includes(trans, <<"c", "v", "t">>) THEN "CVT"
         ELSE IF \/ Includes(trans, <<"a", "t">>)
                 \/ Includes(trans, <<"automatic_kana">>)
                 \/ Includes(trans, <<"a", "u", "t", "o", "m", "a", "t", "i", "c">>)
              THEN "AT"
         ELSE IF \/ Includes(trans, <<"m", "t">>)
                 \/ Includes(trans, <<"manual_kana">>)
                 \/ Includes(trans, <<"m", "a", "n", "u", "a", "l">>) THEN "MT"
         ELSE "other"
CategorizeTransmission(transmission) ==
    IF ~Truthy(transmission) \/ ~IsString(transmission) THEN "other"
    ELSE LET trans == LowerText(transmission.s) IN
         IF Includes(trans, <<"c", "v", "t">>) THEN "CVT"
         ELSE IF \/ Includes(trans, <<"m", "t">>)
                 \/ Includes(trans, <<"manual_kana">>)
                 \/ Includes(trans, <<"m", "a", "n", "u", "a", "l">>) THEN "MT"
         ELSE IF \/ Includes(trans, <<"a", "t">>)
                 \/ Includes(trans, <<"automatic_kana">>)
                 \/ Includes(trans, <<"a", "u", "t", "o", "m", "a", "t", "i", "c">>)
              THEN "AT"
         ELSE "other"

-----------------------------------------------------------------------------
(* The dashboard component (CarAnalysisDashboard.jsx): its state after      *)
(* construction and the collections it derives from its state on each       *)
(* render.  The state that only the presentation reads (view mode, modal,   *)
(* file lists, time of the last update) is left out.                        *)

DefaultYearMin    == 2014
DefaultYearMax    == 2025
DefaultMileageMax == 200000
DefaultPriceMax   == 2000
LatestCount       == 50
PriceGrid         == 100
LabelWidth        == 15

NoPending == [active |-> FALSE, batch |-> [kind |-> "null", rows |-> <<>>],
              normalized |-> TRUE]
DefaultDraw == [month |-> 1, day |-> 1, today |-> Date_2025_06_18]

\* the order of the code units of the characters the grades and keys are made
\* of; on digits, "-" and "/" localeCompare orders texts the same way
CodeUnits ==
    << " ", "(", ")", "-", ".", "/", "0", "1", "2", "3", "4", "5", "6", "7", "8",
       "9", "A", "C", "F", "M", "R", "S", "T", "V", "c", "r", "x", "base" >>
CharRank(c) == CHOOSE i \in 1..Len(CodeUnits) : CodeUnits[i] = c
RECURSIVE TextLess(_, _)
TextLess(a, b) ==
    IF a = <<>> THEN b # <<>>
    ELSE IF b = <<>> THEN FALSE
    ELSE IF Head(a) = Head(b) THEN TextLess(Tail(a), Tail(b))
    ELSE CharRank(Head(a)) < CharRank(Head(b))

\* a < b and a > b on JavaScript numbers: false when either is NaN
JsLt(a, b) == a.t = "num" /\ b.t = "num" /\ a.n < b.n
JsGt(a, b) == a.t = "num" /\ b.t = "num" /\ a.n > b.n
StrictEq(a, b) == a.t # "nan" /\ a = b
SeqIncludes(xs, v) == \E i \in 1..Len(xs) : xs[i] = v
Prefix(s, n) == SubSeq(s, 1, IF n < Len(s) THEN n ELSE Len(s))

\* [...new Set(xs)]: the first occurrence of each value, in order
RECURSIVE UniqueFrom(_, _)
UniqueFrom(xs, seen) ==
    IF xs = <<>> THEN seen
    ELSE UniqueFrom(Tail(xs), IF SeqIncludes(seen, Head(xs)) THEN seen
                              ELSE Append(seen, Head(xs)))
Unique(xs) == UniqueFrom(xs, <<>>)

\* findIndex of the first listing equal on price, year, mileage and normalised
\* grade; the callback of the filter keeps an element found at its own index
SameTuple_WithOrigGrade(u, item) ==
    /\ StrictEq(u.price, item.price) /\ StrictEq(u.year, item.year)
    /\ StrictEq(u.mileage, item.mileage) /\ StrictEq(u.normGrade, item.normGrade)
    /\ StrictEq(u.origGrade, item.origGrade)
SameTuple(u, item) ==
    /\ StrictEq(u.price, item.price) /\ StrictEq(u.year, item.year)
    /\ StrictEq(u.mileage, item.mileage) /\ StrictEq(u.normGrade, item.normGrade)
FindIndex(self, item) ==
    IF \E j \in 1..Len(self) : SameTuple(self[j], item)
    THEN CHOOSE j \in 1..Len(self) :
             /\ SameTuple(self[j], item)
             /\ \A h \in 1..(j - 1) : ~SameTuple(self[h], item)
    ELSE 0
RECURSIVE DedupeFrom(_, _)
DedupeFrom(self, k) ==
    IF k > Len(self) THEN <<>>
    ELSE (IF k = FindIndex(self, self[k]) THEN <<self[k]>> ELSE <<>>)
         \o DedupeFrom(self, k + 1)
Dedupe(self) == DedupeFrom(self, 1)
LastN(xs, n) == IF Len(xs) <= n THEN xs ELSE SubSeq(xs, Len(xs) - n + 1, Len(xs))

processedData ==
    IF overviewMode = "latest" THEN LastN(Dedupe(rawData), LatestCount)
    ELSE Dedupe(rawData)

\* the callback of filteredData: each test returns false early, in this order
TargetGrade(item, useNormalized) ==
    IF useNormalized THEN item.normGrade ELSE item.origGrade
RepairMatches(item) ==
    /\ repairHistoryFilter = "none" => item.repair = Str(RepairNone)
    /\ repairHistoryFilter = "exists" => item.repair = Str(RepairExists)
FilterItem(item) ==
    IF /\ Len(selectedGrades) > 0
       /\ ~SeqIncludes(selectedGrades, TargetGrade(item, showNormalizedGrades))
    THEN FALSE
    ELSE IF JsLt(item.year, yearRange.min) \/ JsGt(item.year, yearRange.max) THEN FALSE
    ELSE IF JsGt(item.mileage, mileageMax) THEN FALSE
    ELSE IF JsLt(item.price, priceRange[1]) \/ JsGt(item.price, priceRange[2]) THEN FALSE
    ELSE IF ~transmissionFilters[CategorizeTransmission(item.transmission)] THEN FALSE
    ELSE IF repairHistoryFilter # "all" /\ ~RepairMatches(item) THEN FALSE
    ELSE TRUE
\* (mutant) the listings that pass, newest first
filteredData_Reversed ==
    LET kept == SelectSeq(processedData, FilterItem)
    IN  [i \in 1..Len(kept) |-> kept[Len(kept) + 1 - i]]
filteredData == SelectSeq(processedData, FilterItem)

\* [...new Set(data.map(grade))].filter(Boolean)
UniqueGrades(data, useNormalized) ==
    SelectSeq(Unique([i \in 1..Len(data) |-> TargetGrade(data[i], useNormalized)]),
              Truthy)
\* xs.sort(): ascending by code units
RECURSIVE InsertText(_, _)
InsertText(sorted, x) ==
    IF sorted = <<>> THEN <<x>>
    ELSE IF TextLess(JsString(x), JsString(Head(sorted))) THEN <<x>> \o sorted
    ELSE <<Head(sorted)>> \o InsertText(Tail(sorted), x)
RECURSIVE SortTexts(_)
SortTexts(xs) == IF xs = <<>> THEN <<>> ELSE InsertText(SortTexts(Tail(xs)), Head(xs))
availableGrades == SortTexts(UniqueGrades(processedData, showNormalizedGrades))

\* getDateFromData(item, mode); e is what Math.random gives when it is called
GetDateFromData(item, mode, e) ==
    IF mode = "scraping"
    THEN IF Truthy(item.capturedAt) THEN Prefix(item.capturedAt.s, 10)
         ELSE <<"2", "0", "2", "5", "-">> \o Pad2(e.month) \o <<"-">> \o Pad2(e.day)
    ELSE JsString(item.year) \o <<"-", "0", "1", "-", "0", "1">>

\* the key trendData files a listing under
TrendKey(item) ==
    LET dateStr == GetDateFromData(item, trendDateMode, draws[item.id]) IN
    IF trendDateMode = "scraping"
    THEN Prefix(dateStr, CASE timeScale = "daily" -> 10
                           [] timeScale = "monthly" -> 7
                           [] OTHER -> 4)
    ELSE JsString(item.year)

\* grouped[key].push(item) for each item, then Object.entries(grouped): the
\* keys that are array indices come first, by value, then the other keys in
\* the order of their first insertion
RECURSIVE PickFrom(_, _, _, _)
PickFrom(keys, items, k, i) ==
    IF i > Len(keys) THEN <<>>
    ELSE (IF keys[i] = k THEN <<items[i]>> ELSE <<>>) \o PickFrom(keys, items, k, i + 1)
IsIndexKey(k) ==
    /\ k # <<>> /\ \A i \in 1..Len(k) : IsDigit(k[i])
    /\ (k[1] = "0" => Len(k) = 1)
RECURSIVE InsertIndexKey(_, _)
InsertIndexKey(sorted, k) ==
    IF sorted = <<>> THEN <<k>>
    ELSE IF DigitsValue(k) < DigitsValue(Head(sorted)) THEN <<k>> \o sorted
    ELSE <<Head(sorted)>> \o InsertIndexKey(Tail(sorted), k)
RECURSIVE SortIndexKeys(_)
SortIndexKeys(ks) ==
    IF ks = <<>> THEN <<>> ELSE InsertIndexKey(SortIndexKeys(Tail(ks)), Head(ks))
NotIndexKey(k) == ~IsIndexKey(k)
\* (mutant) only the keys that are array indices are listed
Entries_IndexKeysOnly(keys, items) ==
    LET ks == Unique(keys)
        ordered == SortIndexKeys(SelectSeq(ks, IsIndexKey))
    IN  [j \in 1..Len(ordered) |->
            [key |-> ordered[j], items |-> PickFrom(keys, items, ordered[j], 1)]]
Entries(keys, items) ==
    LET ks == Unique(keys)
        ordered == SortIndexKeys(SelectSeq(ks, IsIndexKey)) \o SelectSeq(ks, NotIndexKey)
    IN  [j \in 1..Len(ordered) |->
            [key |-> ordered[j], items |-> PickFrom(keys, items, ordered[j], 1)]]

PricesOf(items) == [kind |-> "array", items |-> [i \in 1..Len(items) |-> items[i].price]]

\* xs.sort((a, b) => a.date.localeCompare(b.date)); the sort is stable
RECURSIVE InsertByDate(_, _)
InsertByDate(sorted, x) ==
    IF sorted = <<>> THEN <<x>>
    ELSE IF TextLess(x.date, Head(sorted).date) THEN <<x>> \o sorted
    ELSE <<Head(sorted)>> \o InsertByDate(Tail(sorted), x)
\* (mutant) the entries are left in the order Object.entries gives
SortByDate_Unsorted(xs) == xs
RECURSIVE SortByDate(_)
SortByDate(xs) ==
    IF xs = <<>> THEN <<>>
    ELSE InsertByDate(SortByDate(SubSeq(xs, 1, Len(xs) - 1)), xs[Len(xs)])

trendData ==
    IF Len(filteredData) = 0 THEN <<>>
    ELSE LET keys == [i \in 1..Len(filteredData) |-> TrendKey(filteredData[i])]
             entries == Entries(keys, filteredData)
         IN  SortByDate([j \in 1..Len(entries) |->
                 LET st == CalculatePriceStats(PricesOf(entries[j].items)) IN
                 [ date     |-> entries[j].key,
                   avgPrice |-> st.mean,
                   count    |-> Len(entries[j].items),
                   maxPrice |-> st.max,
                   minPrice |-> st.min,
                   median   |-> st.median ]])

\* xs.sort((a, b) => b.avgPrice - a.avgPrice); the sort is stable
RECURSIVE InsertByAvgPriceDesc(_, _)
InsertByAvgPriceDesc(sorted, x) ==
    IF sorted = <<>> THEN <<x>>
    ELSE IF x.avgPrice > Head(sorted).avgPrice THEN <<x>> \o sorted
    ELSE <<Head(sorted)>> \o InsertByAvgPriceDesc(Tail(sorted), x)
RECURSIVE SortByAvgPriceDesc(_)
SortByAvgPriceDesc(xs) ==
    IF xs = <<>> THEN <<>>
    ELSE InsertByAvgPriceDesc(SortByAvgPriceDesc(SubSeq(xs, 1, Len(xs) - 1)), xs[Len(xs)])

\* avgYear and avgMileage are whole numbers (in tenths here), avgMatchingScore
\* is rounded to two decimals and held in hundredths
gradeAnalysisData ==
    IF Len(filteredData) = 0 THEN <<>>
    ELSE LET keys == [i \in 1..Len(filteredData) |->
                         JsString(TargetGrade(filteredData[i], showNormalizedGrades))]
             entries == Entries(keys, filteredData)
         IN  SortByAvgPriceDesc([j \in 1..Len(entries) |->
                 LET grade == entries[j].key
                     its   == entries[j].items
                     n     == Len(its)
                     priceStats == CalculatePriceStats(PricesOf(its))
                 IN
                 [ grade     |-> IF Len(grade) > LabelWidth
                                 THEN Prefix(grade, LabelWidth) \o <<".", ".", ".">>
                                 ELSE grade,
                   fullGrade |-> grade,
                   avgPrice  |-> priceStats.mean,
                   minPrice  |-> priceStats.min,
                   maxPrice  |-> priceStats.max,
                   median    |-> priceStats.median,
                   count     |-> priceStats.count,
                   avgYear   |->
                       Scale * RoundDiv(SumSeq([i \in 1..n |-> its[i].year.n]), n * Scale),
                   avgMileage |->
                       Scale * RoundDiv(SumSeq([i \in 1..n |-> its[i].mileage.n]), n * Scale),
                   avgMatchingScore |->
                       RoundDiv(SumSeq([i \in 1..n |-> its[i].matchScore.n]) * 10, n) ]])

-----------------------------------------------------------------------------
(* forecastData: a least-squares line through the bucket means, and the
   three dates that follow the last bucket.  The quotients are kept exact: a
   value is the pair of a numerator and a positive denominator until
   Math.round takes it to tenths. *)

\* the offset of the browser's time zone from UTC: new Date('YYYY-MM-DD')
\* is midnight UTC, and getFullYear, getMonth, getDate, setFullYear, setMonth
\* and setDate work in local time, where that instant is the same day east
\* of Greenwich and the day before west of it
TimeZones == {"east", "west"}

IsLeap(y) == (y % 4 = 0 /\ y % 100 # 0) \/ y % 400 = 0
DaysIn(y, m) ==
    IF m = 2 THEN (IF IsLeap(y) THEN 29 ELSE 28)
    ELSE IF m \in {4, 6, 9, 11} THEN 30 ELSE 31

\* the calendar date a Date holds after its month or day was set outside
\* the calendar: the excess carries into the next months and years
RECURSIVE MakeDay(_, _, _)
MakeDay(y, m, d) ==
    LET y1 == y + ((m - 1) \div 12)
        m1 == ((m - 1) % 12) + 1
    IN  IF d < 1 THEN
            LET py == IF m1 = 1 THEN y1 - 1 ELSE y1
                pm == IF m1 = 1 THEN 12 ELSE m1 - 1
            IN  MakeDay(py, pm, d + DaysIn(py, pm))
        ELSE IF d > DaysIn(y1, m1) THEN MakeDay(y1, m1 + 1, d - DaysIn(y1, m1))
        ELSE [valid |-> TRUE, y |-> y1, m |-> m1, d |-> d]
InvalidDate == [valid |-> FALSE, y |-> 0, m |-> 0, d |-> 0]

\* new Date(text), seen through the local getters: a YYYY-MM-DD text of a
\* calendar day is that day at midnight UTC; the keys of trendData give no
\* other text but one that is no date at all, which gives Invalid Date
NewDate(text, z) ==
    IF ~IsIsoDate(text) THEN InvalidDate
    ELSE LET y == DigitsValue(SubSeq(text, 1, 4))
             m == DigitsValue(SubSeq(text, 6, 7))
             d == DigitsValue(SubSeq(text, 9, 10))
         IN  IF m < 1 \/ m > 12 \/ d < 1 \/ d > DaysIn(y, m) THEN InvalidDate
             ELSE IF z = "west" THEN MakeDay(y, m, d - 1)
             ELSE MakeDay(y, m, d)

parseDateString(str, scale, z) ==
    IF scale = "yearly" THEN NewDate(str \o <<"-", "0", "1", "-", "0", "1">>, z)
    ELSE IF scale = "monthly" THEN NewDate(str \o <<"-", "0", "1">>, z)
    ELSE NewDate(str, z)

NaNText == <<"N", "a", "N">>
formatDate(date, scale) ==
    LET y == IF date.valid THEN NatText(date.y) ELSE NaNText
        m == IF date.valid THEN Pad2(date.m) ELSE NaNText
        d == IF date.valid THEN Pad2(date.d) ELSE NaNText
    IN  IF scale = "yearly" THEN y
        ELSE IF scale = "monthly" THEN y \o <<"-">> \o m
        ELSE y \o <<"-">> \o m \o <<"-">> \o d

\* nextDate: a copy of lastDate moved on by i years, months or days
NextDate(lastDate, scale, i) ==
    IF ~lastDate.valid THEN InvalidDate
    ELSE IF scale = "yearly" THEN MakeDay(lastDate.y + i, lastDate.m, lastDate.d)
    ELSE IF scale = "monthly" THEN MakeDay(lastDate.y, lastDate.m + i, lastDate.d)
    ELSE MakeDay(lastDate.y, lastDate.m, lastDate.d + i)

ForecastCount == 3

\* the sums of the regression over the ordinals 0 .. n-1
SumX(n)  == SumSeq([i \in 1..n |-> i - 1])
\* (mutant) the ordinals are summed, not their squares
SumX2_Linear(n) == SumSeq([i \in 1..n |-> i - 1])
SumX2(n) == SumSeq([i \in 1..n |-> (i - 1) * (i - 1)])
SumY(trend)  == SumSeq([i \in 1..Len(trend) |-> trend[i].avgPrice])
SumXY(trend) == SumSeq([i \in 1..Len(trend) |-> (i - 1) * trend[i].avgPrice])
\* slope = SlopeNum / SlopeDen and intercept = InterceptNum / (n * SlopeDen)
SlopeDen(n) == n * SumX2(n) - SumX(n) * SumX(n)
SlopeNum(trend) ==
    Len(trend) * SumXY(trend) - SumX(Len(trend)) * SumY(trend)
InterceptNum(trend) ==
    SumY(trend) * SlopeDen(Len(trend)) - SlopeNum(trend) * SumX(Len(trend))
\* (mutant) the line is read one ordinal early
ForecastPrice_OffByOne(trend, idx) ==
    LET n == Len(trend) IN
    RoundDiv(n * SlopeNum(trend) * (idx - 1) + InterceptNum(trend), n * SlopeDen(n))
\* Math.round((slope * idx + intercept) * 10) / 10
ForecastPrice(trend, idx) ==
    LET n == Len(trend) IN
    RoundDiv(n * SlopeNum(trend) * idx + InterceptNum(trend), n * SlopeDen(n))

\* (mutant) no forecast is made for fewer than three buckets
ForecastData_NeedsThree(trend, mode, scale, z) ==
    IF mode # "scraping" \/ Len(trend) < 3 THEN <<>>
    ELSE LET n == Len(trend)
             lastDate == parseDateString(trend[n].date, scale, z)
         IN  [i \in 1..ForecastCount |->
                 [ date          |-> formatDate(NextDate(lastDate, scale, i), scale),
                   forecastPrice |-> ForecastPrice(trend, n + i - 1),
                   avgPrice      |-> Null,
                   maxPrice      |-> Null,
                   minPrice      |-> Null,
                   median        |-> Null ]]
ForecastData(trend, mode, scale, z) ==
    IF mode # "scraping" \/ Len(trend) < 2 THEN <<>>
    ELSE LET n == Len(trend)
             lastDate == parseDateString(trend[n].date, scale, z)
         IN  [i \in 1..ForecastCount |->
                 [ date          |-> formatDate(NextDate(lastDate, scale, i), scale),
                   forecastPrice |-> ForecastPrice(trend, n + i - 1),
                   avgPrice      |-> Null,
                   maxPrice      |-> Null,
                   minPrice      |-> Null,
                   median        |-> Null ]]

\* (mutant) the forecast is put in front of the observed buckets
TrendDataWithForecast_ForecastFirst(trend, forecast, mode) ==
    IF mode = "scraping" THEN forecast \o trend ELSE trend
TrendDataWithForecast(trend, forecast, mode) ==
    IF mode = "scraping" THEN trend \o forecast ELSE trend

forecastData == ForecastData(trendData, trendDateMode, timeScale, zone)
trendDataWithForecast ==
    TrendDataWithForecast(trendData, forecastData, trendDateMode)

-----------------------------------------------------------------------------
(* Inputs of Spec: the files loaded and what the user enters *)

MaxSteps == 2

\* what a file holds once it is parsed: JSON that is not an array, no row,
\* rows with duplicates, rows out of date order with one lacking its date
DashBatches ==
    { [kind |-> "obj", rows |-> <<>>],
      [kind |-> "array", rows |-> <<>>],
      [kind |-> "array", rows |-> <<Row_A, Row_A2, Row_S>>],
      [kind |-> "array", rows |-> <<Row_S, Row_A, Row_NoDate>>] }
BatchIds == UNION {0..(Len(b.rows) - 1) : b \in DashBatches}

\* the draws of the callbacks of one processCarData call; a callback that
\* does not fall back on a draw is given DefaultDraw
LoadDraws(rows) ==
    {d \in [1..Len(rows) -> Entropy] :
        \A k \in 1..Len(rows) :
            (\A e \in Entropy : RowTable[rows[k]][e] = RowTable[rows[k]][DefaultDraw])
                => d[k] = DefaultDraw}

\* parseInt(e.target.value) of the year and price fields (NaN once a field is
\* emptied) and of the sliders
YearInputs       == {NaN, Num(20170)}
PriceFieldInputs == {NaN, Num(7000)}
SliderInputs     == {Num(7000)}
MileageInputs    == {Num(500000), Num(2000000)}
SliderStep       == 50

-----------------------------------------------------------------------------
(* Bounds and inputs of SpecIngest *)

MaxRows == 2
SeqsUpTo(S, n) == UNION {[1..k -> S] : k \in 0..n}
RawInputs ==
    {[kind |-> k, rows |-> <<>>] : k \in {"null", "undef", "obj", "str"}}
    \cup {[kind |-> "array", rows |-> rs] : rs \in SeqsUpTo(RowPool, MaxRows)}
EntropyDraws == [1..MaxRows -> Entropy]
NoResult == [t |-> "none", items |-> <<>>]

-----------------------------------------------------------------------------
(* SpecParse: one parser applied to one value, then once more *)

IngestIdle ==
    /\ batch = [kind |-> "null", rows |-> <<>>]
    /\ pc = "off"
    /\ listings = NoResult /\ listings2 = NoResult
    /\ quality = NoQuality
ParseIdle == arg = Undef /\ fn = "off" /\ out = NotCalled /\ out2 = NotCalled
StatsIdle ==
    prices = [kind |-> "null", items |-> <<>>] /\ stats = NoStats /\ statsFirst = NoStats
\* the component after construction: the initial values of its useState calls
Constructed ==
    /\ rawData = <<>>
    /\ loading = FALSE
    /\ pending = NoPending
    /\ overviewMode = "all"
    /\ timeScale = "monthly"
    /\ trendDateMode = "scraping"
    /\ selectedGrades = <<>>
    /\ yearRange = [min |-> Num(DefaultYearMin * Scale), max |-> Num(DefaultYearMax * Scale)]
    /\ mileageMax = Num(DefaultMileageMax * Scale)
    /\ priceRange = <<Num(0), Num(DefaultPriceMax * Scale)>>
    /\ transmissionFilters = [c \in Categories |-> TRUE]
    /\ repairHistoryFilter = "all"
    /\ showNormalizedGrades = TRUE
    /\ dataQuality = NoQuality
    /\ alerts = 0
    /\ draws = [id \in BatchIds |-> DefaultDraw]
    /\ steps = 0

InitParse ==
    /\ arg \in InputValues
    /\ fn = "none" /\ out = NotCalled /\ out2 = NotCalled
    /\ IngestIdle /\ StatsIdle /\ Constructed /\ zone = "east"

Call(f) ==
    /\ fn = "none"
    /\ \E e \in Entropy : out' = Apply(f, arg, e)
    /\ fn' = f
    /\ UNCHANGED <<arg, out2>>
CallParsePrice        == Call("parsePrice") /\ UNCHANGED <<ingestVars, statsVars, dashVars>>
CallParseYear         == Call("parseYear") /\ UNCHANGED <<ingestVars, statsVars, dashVars>>
CallParseMileage      == Call("parseMileage") /\ UNCHANGED <<ingestVars, statsVars, dashVars>>
CallParseDisplacement == Call("parseDisplacement") /\ UNCHANGED <<ingestVars, statsVars, dashVars>>
CallParseDate         == Call("parseDate") /\ UNCHANGED <<ingestVars, statsVars, dashVars>>
CallAgain ==
    /\ fn \in Parsers /\ out2 = NotCalled
    /\ \E e \in Entropy : out2' = Apply(fn, arg, e)
    /\ UNCHANGED <<arg, fn, out>>
    /\ UNCHANGED <<ingestVars, statsVars, dashVars>>

NextParse ==
    \/ CallParsePrice \/ CallParseYear \/ CallParseMileage
    \/ CallParseDisplacement \/ CallParseDate \/ CallAgain

-----------------------------------------------------------------------------
(* SpecIngest: processCarData on a raw input, its quality report, a rerun *)

InitIngest ==
    /\ batch \in RawInputs
    /\ pc = "start"
    /\ listings = NoResult /\ listings2 = NoResult
    /\ quality = NoQuality
    /\ ParseIdle /\ StatsIdle /\ Constructed /\ zone = "east"

Process ==
    /\ pc = "start"
    /\ \E ent \in EntropyDraws : listings' = ProcessCarData(batch, ent)
    /\ quality' = CheckDataQuality(listings'.items)
    /\ pc' = "processed"
    /\ UNCHANGED <<batch, listings2>>
    /\ UNCHANGED <<parseVars, statsVars, dashVars>>

Reprocess ==
    /\ pc = "processed"
    /\ \E ent \in EntropyDraws : listings2' = ProcessCarData(batch, ent)
    /\ pc' = "reprocessed"
    /\ UNCHANGED <<batch, listings, quality>>
    /\ UNCHANGED <<parseVars, statsVars, dashVars>>

NextIngest == Process \/ Reprocess

-----------------------------------------------------------------------------
(* SpecStats: calculatePriceStats on a collection, and on its reorderings *)

MaxPrices == 4
PriceItems ==
    { Num(1000), Num(2000), Num(2005), Num(0), Num(0 - 1000), NaN, Null,
      Str(<<"1", "0", "0">>) }
PriceInputs ==
    {[kind |-> k, items |-> <<>>] : k \in {"null", "undef", "obj"}}
    \cup {[kind |-> "array", items |-> xs] : xs \in SeqsUpTo(PriceItems, MaxPrices)}

InitStats ==
    /\ prices \in PriceInputs
    /\ stats = NoStats /\ statsFirst = NoStats
    /\ ParseIdle /\ IngestIdle /\ Constructed /\ zone = "east"

ComputeStats ==
    /\ stats = NoStats
    /\ stats' = CalculatePriceStats(prices)
    /\ statsFirst' = IF statsFirst = NoStats THEN stats' ELSE statsFirst
    /\ UNCHANGED prices
    /\ UNCHANGED <<parseVars, ingestVars, dashVars>>

\* the caller hands over the same values in another order
Reorder ==
    /\ stats # NoStats
    /\ \E i \in 1..(Len(prices.items) - 1) :
          /\ prices.items[i] # prices.items[i + 1]
          /\ prices' = [prices EXCEPT !.items[i] = prices.items[i + 1],
                                      !.items[i + 1] = prices.items[i]]
    /\ stats' = NoStats
    /\ UNCHANGED statsFirst
    /\ UNCHANGED <<parseVars, ingestVars, dashVars>>

NextStats == ComputeStats \/ Reorder

-----------------------------------------------------------------------------
(* Spec: the dashboard.  A load starts, and later completes or fails; the   *)
(* user changes the view and the filters.  One load is in flight at a time. *)

Init == Constructed /\ zone \in TimeZones /\ ParseIdle /\ IngestIdle /\ StatsIdle

\* trendData is computed again: getDateFromData draws for each filtered
\* listing without a capture time; the other ids keep DefaultDraw
FallbackIds ==
    IF trendDateMode # "scraping" THEN {}
    ELSE LET fd == filteredData IN
         {fd[i].id : i \in {j \in 1..Len(fd) : ~Truthy(fd[j].capturedAt)}}
Rerender ==
    \E need \in {FallbackIds'} :
        draws' \in {d \in [BatchIds -> Entropy] :
                       \A id \in BatchIds \ need : d[id] = DefaultDraw}

Others == <<parseVars, ingestVars, statsVars, zone>>
\* the controls are rendered only while no load is in progress (the component
\* returns the spinner alone when loading is set)
UserStep ==
    /\ steps < MaxSteps /\ ~loading
    /\ steps' = steps + 1
    /\ UNCHANGED <<Others, loadVars>>

\* loadSelectedFile / handleFileUpload up to the request: the callbacks that
\* will run on completion hold the showNormalizedGrades of this render
StartLoad ==
    /\ steps < MaxSteps /\ ~pending.active
    /\ \E b \in DashBatches :
          pending' = [active |-> TRUE, batch |-> b, normalized |-> showNormalizedGrades]
    /\ loading' = TRUE
    /\ steps' = steps + 1
    /\ UNCHANGED <<rawData, dataQuality, alerts, viewVars, filterVars, draws, Others>>

\* the price range rounded out to hundreds around the prices of the listings
AutoPriceRange(data, current) ==
    LET ps == SelectSeq([i \in 1..Len(data) |-> data[i].price], Truthy)
        values == [i \in 1..Len(ps) |-> ps[i].n]
        grid == PriceGrid * Scale
    IN  IF Len(ps) > 0
        THEN << Num((MinOf(values) \div grid) * grid),
                Num(((MaxOf(values) + grid - 1) \div grid) * grid) >>
        ELSE current

\* the data arrived: processCarData, checkDataQuality, the initial grade
\* selection and the price range
CompleteLoad ==
    /\ pending.active
    /\ loading' = FALSE
    /\ pending' = NoPending
    /\ \E ent \in LoadDraws(pending.batch.rows) :
          rawData' = ProcessCarData(pending.batch, ent).items
    /\ dataQuality' = CheckDataQuality(rawData')
    /\ selectedGrades' = UniqueGrades(rawData', pending.normalized)
    /\ priceRange' = AutoPriceRange(rawData', priceRange)
    /\ UNCHANGED <<alerts, viewVars, yearRange, mileageMax, transmissionFilters,
                   repairHistoryFilter, showNormalizedGrades, steps, Others>>
    /\ Rerender

\* (mutant) the failure handler shows the alert and leaves loading set
FailLoad_KeepsLoading ==
    /\ pending.active
    /\ alerts' = alerts + 1
    /\ pending' = NoPending
    /\ UNCHANGED <<rawData, loading, dataQuality, viewVars, filterVars, draws, steps,
                   Others>>
\* the request failed (fetch rejects, the response is not ok, response.json()
\* rejects) or Papa.parse reports an error: loading is cleared and one alert
\* is shown; nothing else is set and no request is issued
FailLoad ==
    /\ pending.active
    /\ loading' = FALSE
    /\ alerts' = alerts + 1
    /\ pending' = NoPending
    /\ UNCHANGED <<rawData, dataQuality, viewVars, filterVars, draws, steps, Others>>

SetOverviewMode ==
    /\ UserStep
    /\ \E m \in {"all", "latest"} \ {overviewMode} : overviewMode' = m
    /\ UNCHANGED <<timeScale, trendDateMode, filterVars>>
    /\ Rerender

\* the scale buttons are shown in scraping mode only
SetTimeScale ==
    /\ UserStep
    /\ trendDateMode = "scraping"
    /\ \E s \in {"daily", "monthly", "yearly"} \ {timeScale} : timeScale' = s
    /\ UNCHANGED <<overviewMode, trendDateMode, filterVars>>
    /\ Rerender

SetTrendDateMode ==
    /\ UserStep
    /\ \E m \in {"scraping", "year"} \ {trendDateMode} : trendDateMode' = m
    /\ UNCHANGED <<overviewMode, timeScale, filterVars>>
    /\ Rerender

HandleGradeToggle ==
    /\ UserStep
    /\ \E i \in 1..Len(availableGrades) :
          LET grade == availableGrades[i]
              keep(v) == v # grade
          IN  selectedGrades' =
                  IF SeqIncludes(selectedGrades, grade)
                  THEN SelectSeq(selectedGrades, keep)
                  ELSE Append(selectedGrades, grade)
    /\ UNCHANGED <<viewVars, yearRange, mileageMax, priceRange, transmissionFilters,
                   repairHistoryFilter, showNormalizedGrades>>
    /\ Rerender

HandleSelectAllGrades ==
    /\ UserStep
    /\ selectedGrades' =
          IF Len(selectedGrades) = Len(availableGrades) THEN <<>> ELSE availableGrades
    /\ UNCHANGED <<viewVars, yearRange, mileageMax, priceRange, transmissionFilters,
                   repairHistoryFilter, showNormalizedGrades>>
    /\ Rerender

HandleGradeTypeChange ==
    /\ UserStep
    /\ \E useNormalized \in BOOLEAN \ {showNormalizedGrades} :
          /\ showNormalizedGrades' = useNormalized
          /\ selectedGrades' = UniqueGrades(processedData, useNormalized)
    /\ UNCHANGED <<viewVars, yearRange, mileageMax, priceRange, transmissionFilters,
                   repairHistoryFilter>>
    /\ Rerender

SetYearMin ==
    /\ UserStep
    /\ \E v \in YearInputs : yearRange' = [yearRange EXCEPT !.min = v]
    /\ UNCHANGED <<viewVars, selectedGrades, mileageMax, priceRange, transmissionFilters,
                   repairHistoryFilter, showNormalizedGrades>>
    /\ Rerender

SetYearMax ==
    /\ UserStep
    /\ \E v \in YearInputs : yearRange' = [yearRange EXCEPT !.max = v]
    /\ UNCHANGED <<viewVars, selectedGrades, mileageMax, priceRange, transmissionFilters,
                   repairHistoryFilter, showNormalizedGrades>>
    /\ Rerender

SetPriceMin ==
    /\ UserStep
    /\ \E v \in PriceFieldInputs : priceRange' = <<OrElse(v, Num(0)), priceRange[2]>>
    /\ UNCHANGED <<viewVars, selectedGrades, yearRange, mileageMax, transmissionFilters,
                   repairHistoryFilter, showNormalizedGrades>>
    /\ Rerender

SetPriceMax ==
    /\ UserStep
    /\ \E v \in PriceFieldInputs :
          priceRange' = <<priceRange[1], OrElse(v, Num(DefaultPriceMax * Scale))>>
    /\ UNCHANGED <<viewVars, selectedGrades, yearRange, mileageMax, transmissionFilters,
                   repairHistoryFilter, showNormalizedGrades>>
    /\ Rerender

\* handleRangeChange of the range slider (min 0, max DefaultPriceMax)
HandleRangeChange ==
    /\ UserStep
    /\ \E index \in {0, 1}, newValue \in SliderInputs :
          LET step == SliderStep * Scale
              lo == priceRange[1].n
              hi == priceRange[2].n
              least(a, b) == IF a < b THEN a ELSE b
              most(a, b) == IF a > b THEN a ELSE b
          IN  priceRange' =
                  IF index = 0
                  THEN <<Num(most(0, least(newValue.n, hi - step))), priceRange[2]>>
                  ELSE <<priceRange[1],
                         Num(most(lo + step, least(DefaultPriceMax * Scale, newValue.n)))>>
    /\ UNCHANGED <<viewVars, selectedGrades, yearRange, mileageMax, transmissionFilters,
                   repairHistoryFilter, showNormalizedGrades>>
    /\ Rerender

SetMileageMax ==
    /\ UserStep
    /\ \E v \in MileageInputs \ {mileageMax} : mileageMax' = v
    /\ UNCHANGED <<viewVars, selectedGrades, yearRange, priceRange, transmissionFilters,
                   repairHistoryFilter, showNormalizedGrades>>
    /\ Rerender

HandleTransmissionToggle ==
    /\ UserStep
    /\ \E category \in Categories :
          transmissionFilters' =
              [transmissionFilters EXCEPT ![category] = ~transmissionFilters[category]]
    /\ UNCHANGED <<viewVars, selectedGrades, yearRange, mileageMax, priceRange,
                   repairHistoryFilter, showNormalizedGrades>>
    /\ Rerender

SetRepairHistoryFilter ==
    /\ UserStep
    /\ \E r \in {"all", "none", "exists"} \ {repairHistoryFilter} :
          repairHistoryFilter' = r
    /\ UNCHANGED <<viewVars, selectedGrades, yearRange, mileageMax, priceRange,
                   transmissionFilters, showNormalizedGrades>>
    /\ Rerender

\* the reset button
ResetFilters ==
    /\ UserStep
    /\ yearRange' = [min |-> Num(DefaultYearMin * Scale), max |-> Num(DefaultYearMax * Scale)]
    /\ priceRange' = <<Num(0), Num(DefaultPriceMax * Scale)>>
    /\ mileageMax' = Num(DefaultMileageMax * Scale)
    /\ transmissionFilters' = [c \in Categories |-> TRUE]
    /\ repairHistoryFilter' = "all"
    /\ selectedGrades' = availableGrades
    /\ UNCHANGED <<viewVars, showNormalizedGrades>>
    /\ Rerender

Next ==
    \/ StartLoad \/ CompleteLoad \/ FailLoad
    \/ SetOverviewMode \/ SetTimeScale \/ SetTrendDateMode
    \/ HandleGradeToggle \/ HandleSelectAllGrades \/ HandleGradeTypeChange
    \/ SetYearMin \/ SetYearMax \/ SetPriceMin \/ SetPriceMax \/ HandleRangeChange
    \/ SetMileageMax \/ HandleTransmissionToggle \/ SetRepairHistoryFilter
    \/ ResetFilters

-----------------------------------------------------------------------------
(* SpecForecast: forecastData and trendDataWithForecast on a trend.  arg is
   the trend with the mode and the scale of the render, out the forecast,
   out2 the concatenation. *)

MaxBuckets == 4
MeanValues == {1000, 2000, 3000, 4000, 6599}
\* days of observation in ascending order, no two of one year: with the
\* length of the trend the last one is the end of a short month, a leap day,
\* the last day of a year, or an ordinary day
TextOfDate(y, m, d) == NatText(y) \o <<"-">> \o Pad2(m) \o <<"-">> \o Pad2(d)
DateLines ==
    { << TextOfDate(2021, 1, 31), TextOfDate(2023, 2, 28), TextOfDate(2024, 2, 29),
         TextOfDate(2025, 12, 31), TextOfDate(2026, 3, 1) >>,
      << TextOfDate(2020, 6, 17), TextOfDate(2021, 3, 1), TextOfDate(2022, 10, 31),
         TextOfDate(2023, 11, 30), TextOfDate(2025, 1, 1) >> }
KeyLength(scale) ==
    CASE scale = "daily" -> 10 [] scale = "monthly" -> 7 [] OTHER -> 4
\* the buckets of one listing each: the mean is the one price
TrendOf(means, line, mode, scale) ==
    [i \in 1..Len(means) |->
        [ date     |-> Prefix(line[i], IF mode = "scraping" THEN KeyLength(scale) ELSE 4),
          avgPrice |-> means[i],
          count    |-> 1,
          maxPrice |-> means[i],
          minPrice |-> means[i],
          median   |-> means[i] ]]
ForecastInputs ==
    { [trend |-> TrendOf(means, line, mode, scale), mode |-> mode, scale |-> scale] :
        means \in SeqsUpTo(MeanValues, MaxBuckets), line \in DateLines,
        mode \in {"scraping", "year"}, scale \in {"daily", "monthly", "yearly"} }

InitForecast ==
    /\ arg \in ForecastInputs
    /\ zone \in TimeZones
    /\ fn = "none" /\ out = NotCalled /\ out2 = NotCalled
    /\ IngestIdle /\ StatsIdle /\ Constructed

CallForecastData ==
    /\ fn = "none"
    /\ fn' = "forecastData"
    /\ out' = ForecastData(arg.trend, arg.mode, arg.scale, zone)
    /\ UNCHANGED <<arg, out2>>
    /\ UNCHANGED <<ingestVars, statsVars, dashVars>>

Concatenate ==
    /\ fn = "forecastData"
    /\ fn' = "trendDataWithForecast"
    /\ out2' = TrendDataWithForecast(arg.trend, out, arg.mode)
    /\ UNCHANGED <<arg, out>>
    /\ UNCHANGED <<ingestVars, statsVars, dashVars>>

NextForecast == CallForecastData \/ Concatenate

-----------------------------------------------------------------------------
(* SpecQuality: checkDataQuality on a collection of records.  arg is the
   collection, out the report. *)

MaxRecords == 3
\* a record that passes the four checks, and records that differ from it in
\* the fields named
GoodRecord ==
    [ price |-> Num(6599), year |-> Num(20190), mileage |-> Num(530000),
      normGrade |-> Str(G_RC_50), origGrade |-> Str(G_rc_50_x) ]
QualityRecords ==
    {GoodRecord}
    \cup {[GoodRecord EXCEPT !.price = v] : v \in {Num(0), Undef, Str(T_659_9_ManYen)}}
    \cup {[GoodRecord EXCEPT !.year = v] :
            v \in {Num(YearMin * Scale), Num(YearMax * Scale), Num((YearMin - 1) * Scale),
                   Num((YearMax + 1) * Scale), Null}}
    \cup {[GoodRecord EXCEPT !.mileage = v] : v \in {Num(0), Num(0 - 10), Null, Str(T_5_3_ManKm)}}
    \cup {[GoodRecord EXCEPT !.normGrade = Str(<<>>)],
          [GoodRecord EXCEPT !.origGrade = Undef],
          [GoodRecord EXCEPT !.normGrade = Undef, !.origGrade = Str(<<>>)],
          [GoodRecord EXCEPT !.price = Num(0), !.year = Null],
          [GoodRecord EXCEPT !.mileage = Null, !.normGrade = Null, !.origGrade = Null]}
QualityInputs == SeqsUpTo(QualityRecords, MaxRecords)

InitQuality ==
    /\ arg \in QualityInputs
    /\ fn = "none" /\ out = NotCalled /\ out2 = NotCalled
    /\ IngestIdle /\ StatsIdle /\ Constructed /\ zone = "east"

CallCheckDataQuality ==
    /\ fn = "none"
    /\ fn' = "checkDataQuality"
    /\ out' = CheckDataQuality(arg)
    /\ UNCHANGED <<arg, out2>>
    /\ UNCHANGED <<ingestVars, statsVars, dashVars>>

NextQuality == CallCheckDataQuality

-----------------------------------------------------------------------------
(* SpecExport: a batch is ingested, the listings are converted to the legacy
   format and written as CSV.  out is the legacy collection, out2 the file. *)

ExportInputs == {[kind |-> "array", rows |-> rs] : rs \in SeqsUpTo(ExportRows, MaxRows)}

InitExport ==
    /\ batch \in ExportInputs
    /\ pc = "start"
    /\ listings = NoResult /\ listings2 = NoResult
    /\ quality = NoQuality
    /\ arg = Undef /\ fn = "none" /\ out = NotCalled /\ out2 = NotCalled
    /\ StatsIdle /\ Constructed /\ zone = "east"

\* handleExport: convertToLegacyFormat on the listings
ConvertLegacy ==
    /\ pc = "processed" /\ fn = "none"
    /\ fn' = "convertToLegacyFormat"
    /\ out' = ConvertToLegacyFormat(listings)
    /\ UNCHANGED <<arg, out2>>
    /\ UNCHANGED <<ingestVars, statsVars, dashVars>>

\* handleExport: exportToCSV on the legacy collection
ExportCsv ==
    /\ fn = "convertToLegacyFormat"
    /\ fn' = "exportToCSV"
    /\ out2' = ExportToCSV(out)
    /\ UNCHANGED <<arg, out>>
    /\ UNCHANGED <<ingestVars, statsVars, dashVars>>

NextExport == Process \/ ConvertLegacy \/ ExportCsv

-----------------------------------------------------------------------------
(* SpecDerived: processCarData on one row, for the derived fields of its
   listing *)

DerivedInputs == {[kind |-> "array", rows |-> <<r>>] : r \in DerivedRows}

InitDerived ==
    /\ batch \in DerivedInputs
    /\ pc = "start"
    /\ listings = NoResult /\ listings2 = NoResult
    /\ quality = NoQuality
    /\ ParseIdle /\ StatsIdle /\ Constructed /\ zone = "east"

NextDerived == Process

-----------------------------------------------------------------------------
(* SpecTrend: the dashboard while a file is loaded whose rows hold capture
   times of every form; the load completes, the user changes the time scale
   and the trend date mode *)

TrendBatches ==
    {[kind |-> "array", rows |-> rs] :
        rs \in SeqsUpTo({[BaseRow EXCEPT !.capturedAt = v] : v \in DateValues}, MaxRows)
                 \ {<<>>}}

\* the state StartLoad leaves when the first file is one of TrendBatches
InitTrend ==
    /\ rawData = <<>>
    /\ loading = TRUE
    /\ \E b \in TrendBatches :
          pending = [active |-> TRUE, batch |-> b, normalized |-> TRUE]
    /\ overviewMode = "all"
    /\ timeScale = "monthly"
    /\ trendDateMode = "scraping"
    /\ selectedGrades = <<>>
    /\ yearRange = [min |-> Num(DefaultYearMin * Scale), max |-> Num(DefaultYearMax * Scale)]
    /\ mileageMax = Num(DefaultMileageMax * Scale)
    /\ priceRange = <<Num(0), Num(DefaultPriceMax * Scale)>>
    /\ transmissionFilters = [c \in Categories |-> TRUE]
    /\ repairHistoryFilter = "all"
    /\ showNormalizedGrades = TRUE
    /\ dataQuality = NoQuality
    /\ alerts = 0
    /\ draws = [id \in BatchIds |-> DefaultDraw]
    /\ steps = 1
    /\ zone = "east"
    /\ ParseIdle /\ IngestIdle /\ StatsIdle

NextTrend == CompleteLoad \/ SetTimeScale \/ SetTrendDateMode

-----------------------------------------------------------------------------
(* SpecReset: the dashboard once the first file, one of ResetBatches, has
   been requested. *)

ResetBatches ==
    { [kind |-> "array", rows |-> <<Row_A, Row_Old>>],
      [kind |-> "array", rows |-> <<Row_Dear, Row_S>>],
      [kind |-> "array", rows |-> <<Row_Worn>>],
      [kind |-> "array", rows |-> <<Row_A, Row_A2, Row_S>>] }

\* the state StartLoad leaves when the first file is one of ResetBatches
InitReset ==
    /\ rawData = <<>>
    /\ loading = TRUE
    /\ \E b \in ResetBatches :
          pending = [active |-> TRUE, batch |-> b, normalized |-> TRUE]
    /\ overviewMode = "all"
    /\ timeScale = "monthly"
    /\ trendDateMode = "scraping"
    /\ selectedGrades = <<>>
    /\ yearRange = [min |-> Num(DefaultYearMin * Scale), max |-> Num(DefaultYearMax * Scale)]
    /\ mileageMax = Num(DefaultMileageMax * Scale)
    /\ priceRange = <<Num(0), Num(DefaultPriceMax * Scale)>>
    /\ transmissionFilters = [c \in Categories |-> TRUE]
    /\ repairHistoryFilter = "all"
    /\ showNormalizedGrades = TRUE
    /\ dataQuality = NoQuality
    /\ alerts = 0
    /\ draws = [id \in BatchIds |-> DefaultDraw]
    /\ steps = 1
    /\ zone = "east"
    /\ ParseIdle /\ IngestIdle /\ StatsIdle

NextReset == Next

-----------------------------------------------------------------------------
(* SpecTransmission: categorizeTransmission on one value.  arg is the value,
   out the category. *)

MaxWords == 3
TransmissionWords ==
    { <<"C", "V", "T">>, <<"6", "M", "T">>, <<"A", "T">>,
      <<"M", "a", "n", "u", "a", "l">>, <<"A", "u", "t", "o">>,
      <<"manual_kana">>, <<"automatic_kana">>, <<"x">>, <<"/">> }
RECURSIVE Flatten(_)
Flatten(ws) == IF ws = <<>> THEN <<>> ELSE Head(ws) \o Flatten(Tail(ws))
TransmissionInputs ==
    {Str(Flatten(ws)) : ws \in SeqsUpTo(TransmissionWords, MaxWords)}
    \cup {Undef, Null, Num(0), Num(50), Obj}

InitTransmission ==
    /\ arg \in TransmissionInputs
    /\ fn = "none" /\ out = NotCalled /\ out2 = NotCalled
    /\ IngestIdle /\ StatsIdle /\ Constructed /\ zone = "east"

CallCategorizeTransmission ==
    /\ fn = "none"
    /\ fn' = "categorizeTransmission"
    /\ out' = CategorizeTransmission(arg)
    /\ UNCHANGED <<arg, out2>>
    /\ UNCHANGED <<ingestVars, statsVars, dashVars>>

NextTransmission == CallCategorizeTransmission

-----------------------------------------------------------------------------
(* SpecGrade: normalizeGradeName on one value.  arg is the value, out the
   label, out2 the label of the label. *)

G_RC_Performance == <<"R", "C", " ", "performance", "package">>
GradeWords ==
    { G_RC_50, G_RC_Performance, G_RC_Carbon, <<"r", "c", " ">>, RC,
      <<"(">>, <<"lb)">>, <<" ">>, <<"S">> }
GradeInputs ==
    {Str(Flatten(ws)) : ws \in SeqsUpTo(GradeWords, MaxWords)}
    \cup {Undef, Null, Num(0), Num(50), Obj}

InitGrade ==
    /\ arg \in GradeInputs
    /\ fn = "none" /\ out = NotCalled /\ out2 = NotCalled
    /\ IngestIdle /\ StatsIdle /\ Constructed /\ zone = "east"

CallNormalizeGradeName ==
    /\ fn = "none"
    /\ fn' = "normalizeGradeName"
    /\ out' = NormalizeGradeName(arg)
    /\ UNCHANGED <<arg, out2>>
    /\ UNCHANGED <<ingestVars, statsVars, dashVars>>

\* processCarData hands the stored normalised grade, itself a label of
\* normalizeGradeName, to normalizeGradeName once more
CallNormalizeGradeNameAgain ==
    /\ fn = "normalizeGradeName" /\ out # Throw /\ out2 = NotCalled
    /\ out2' = NormalizeGradeName(out)
    /\ UNCHANGED <<arg, fn, out>>
    /\ UNCHANGED <<ingestVars, statsVars, dashVars>>

NextGrade == CallNormalizeGradeName \/ CallNormalizeGradeNameAgain

vars == <<parseVars, ingestVars, statsVars, dashVars>>
SpecParse  == InitParse /\ [][NextParse]_vars
SpecIngest == InitIngest /\ [][NextIngest]_vars
SpecStats  == InitStats /\ [][NextStats]_vars
Spec       == Init /\ [][Next]_vars
\* the request of a load in flight settles, and its callback runs
SpecLive   == Init /\ [][Next]_vars /\ WF_vars(FailLoad \/ CompleteLoad)
SpecForecast == InitForecast /\ [][NextForecast]_vars
SpecQuality == InitQuality /\ [][NextQuality]_vars
SpecExport == InitExport /\ [][NextExport]_vars
SpecTransmission == InitTransmission /\ [][NextTransmission]_vars
SpecGrade == InitGrade /\ [][NextGrade]_vars
SpecDerived == InitDerived /\ [][NextDerived]_vars
SpecTrend == InitTrend /\ [][NextTrend]_vars
SpecReset == InitReset /\ [][NextReset]_vars

-----------------------------------------------------------------------------
(* Claims about ingestion *)

Processed == pc \in {"processed", "reprocessed"}
InRange(v, lo, hi) == v.t = "num" /\ v.n >= lo * Scale /\ v.n <= hi * Scale
HasId(items, id) == \E i \in 1..Len(items) : items[i].id = id
\* processCarData on the k-th row alone, every callback drawing e
Alone(k, e) ==
    ProcessCarData([kind |-> "array", rows |-> <<batch.rows[k]>>],
                   [j \in 1..MaxRows |-> e]).items

\* C1: every listing processCarData returns has a price within [10, 3000],
\* whether the raw total-price field was a text or a number.
C1_PriceWithinRange ==
    Processed =>
        \A i \in 1..Len(listings.items) :
            InRange(listings.items[i].price, PriceMin, PriceMax)

\* C2: every listing has a year within [2010, 2026] and a mileage >= 0, and a
\* row whose year or mileage does not parse, or is a number out of range, has
\* no listing.
C2_YearMileageValid ==
    Processed =>
        /\ \A i \in 1..Len(listings.items) :
              /\ InRange(listings.items[i].year, YearMin, YearMax)
              /\ listings.items[i].mileage.t = "num"
              /\ listings.items[i].mileage.n >= 0
        /\ \A k \in 1..Len(batch.rows) :
              LET row == batch.rows[k] IN
              (\/ ParseYear(row.year) = Null
               \/ ParseMileage(row.mileage) = Null
               \/ (IsNumber(row.year) /\ ~InRange(row.year, YearMin, YearMax))
               \/ (IsNumber(row.mileage) /\ ~(row.mileage.t = "num" /\ row.mileage.n >= 0)))
              => ~HasId(listings.items, k - 1)
C2_Witness ==
    /\ pc = "processed"
    /\ \E k \in 1..Len(batch.rows) :
          /\ batch.rows[k].year = Num(20150)
          /\ HasId(listings.items, k - 1)
    /\ \E k \in 1..Len(batch.rows) :
          /\ batch.rows[k].year = Num(20300)
          /\ ~HasId(listings.items, k - 1)

\* C3: the result holds exactly the rows that ingest on their own, in input
\* order, each with its index in the raw array as id and the listing it gets
\* on its own; a row that raises is skipped and changes nothing else.
C3_RowsIndependent ==
    (Processed /\ batch.kind = "array") =>
        LET items == listings.items IN
        /\ \A i, j \in 1..Len(items) : i < j => items[i].id < items[j].id
        /\ \A i \in 1..Len(items) : items[i].id \in 0..(Len(batch.rows) - 1)
        /\ \A k \in 1..Len(batch.rows) :
              /\ HasId(items, k - 1) <=> (\E e \in Entropy : Alone(k, e) # <<>>)
              /\ \A i \in 1..Len(items) :
                    items[i].id = k - 1 =>
                        \E e \in Entropy :
                            /\ Alone(k, e) # <<>>
                            /\ [items[i] EXCEPT !.id = 0] = Alone(k, e)[1]
C3_Witness ==
    /\ pc = "processed" /\ batch.kind = "array" /\ Len(batch.rows) = 2
    /\ (batch.rows[1].nul \/ batch.rows[1].capturedAt.t = "num")
    /\ Len(listings.items) = 1
    /\ listings.items[1].id = 1

\* C4: an input that is not an array yields an empty collection, no raise, and
\* the quality check downstream gets an empty collection.
C4_NonArrayYieldsEmpty ==
    (Processed /\ batch.kind # "array") =>
        /\ listings = ArrayOf(<<>>)
        /\ quality.totalCount = 0 /\ quality.validCount = 0
        /\ quality.qualityScore = 0 /\ quality.issues = <<"no data">>
C4_Witness == pc = "processed" /\ batch.kind = "obj" /\ listings.t = "array"

\* C5: parsePrice, parseYear, parseMileage, parseDisplacement and parseDate
\* return a value or the no-value sentinel for every input; none raises.
C5_ParsersNeverThrow == fn \in Parsers => out.t # "throw"

\* C6: running a stage again on the same input gives the same output:
\* processCarData twice on the same batch returns the same listings.
C6_RerunIdentical == pc = "reprocessed" => listings2 = listings

-----------------------------------------------------------------------------
(* Claims about the dashboard's collections *)

\* the listing is an element of the collection
Holds(xs, item) == \E k \in 1..Len(xs) : xs[k] = item
TupleOf(item) == <<item.price, item.year, item.mileage, item.normGrade>>

\* C7: in 'all' mode processedData holds, for each (price, year, mileage,
\* normalised grade) among the loaded listings, the first listing carrying it
\* and no other listing, in the order of the input.
C7_DedupKeepsFirst ==
    overviewMode = "all" =>
        LET pd == processedData IN
        /\ \A i \in 1..Len(rawData) :
              Holds(pd, rawData[i])
                  <=> \A j \in 1..(i - 1) : TupleOf(rawData[j]) # TupleOf(rawData[i])
        /\ \A k \in 1..Len(pd) : Holds(rawData, pd[k])
        /\ \A k \in 1..Len(pd), m \in 1..Len(pd) : k < m => pd[k].id < pd[m].id
        /\ Len(pd) = Cardinality({TupleOf(rawData[i]) : i \in 1..Len(rawData)})
\* three listings are loaded; the second repeats the tuple of the first with
\* another original grade, transmission and repair history, and is dropped
C7_Witness ==
    /\ overviewMode = "all" /\ Len(rawData) = 3
    /\ TupleOf(rawData[2]) = TupleOf(rawData[1])
    /\ rawData[2].origGrade # rawData[1].origGrade
    /\ rawData[2].transmission # rawData[1].transmission
    /\ rawData[2].repair # rawData[1].repair
    /\ processedData = <<rawData[1], rawData[3]>>

JsLeq(a, b) == a.t = "num" /\ b.t = "num" /\ a.n <= b.n
Passes(item) ==
    /\ \/ selectedGrades = <<>>
       \/ SeqIncludes(selectedGrades, TargetGrade(item, showNormalizedGrades))
    /\ JsLeq(yearRange.min, item.year) /\ JsLeq(item.year, yearRange.max)
    /\ JsLeq(item.mileage, mileageMax)
    /\ JsLeq(priceRange[1], item.price) /\ JsLeq(item.price, priceRange[2])
    /\ transmissionFilters[CategorizeTransmission(item.transmission)]
    /\ \/ repairHistoryFilter = "all"
       \/ repairHistoryFilter = "none" /\ item.repair = Str(RepairNone)
       \/ repairHistoryFilter = "exists" /\ item.repair = Str(RepairExists)

\* C8: a deduplicated listing is in filteredData if and only if its grade is
\* selected (or no grade is), yearRange.min <= year <= yearRange.max, mileage
\* <= mileageMax, priceRange[0] <= price <= priceRange[1], its transmission
\* category is switched on and the repair-history setting is 'all' or matches.
C8_FilterIffAllPredicates ==
    LET pd == processedData
        fd == filteredData
    IN  /\ \A i \in 1..Len(pd) : Holds(fd, pd[i]) <=> Passes(pd[i])
        /\ \A k \in 1..Len(fd) : Holds(pd, fd[k])

Ascending(keys) ==
    \A i \in 1..Len(keys), j \in 1..Len(keys) : i < j => TextLess(keys[i], keys[j])
TrendKeys == LET td == trendData IN [i \in 1..Len(td) |-> td[i].date]
GradeKeys == LET gd == gradeAnalysisData IN [i \in 1..Len(gd) |-> gd[i].fullGrade]

\* C10 (as stated): the time buckets and the grade buckets alike have pairwise
\* distinct keys and come in ascending lexicographic order of their keys.
C10_BucketsAscendingByKey == Ascending(TrendKeys) /\ Ascending(GradeKeys)

\* C10 (amended): the time buckets have pairwise distinct keys and come in
\* ascending lexicographic order of their keys; the grade buckets have
\* pairwise distinct keys and come in descending order of their mean price.
C10_BucketsOrdered ==
    LET gd == gradeAnalysisData IN
    /\ Ascending(TrendKeys)
    /\ \A i \in 1..Len(gd), j \in 1..Len(gd) :
          i < j => gd[i].fullGrade # gd[j].fullGrade /\ gd[i].avgPrice >= gd[j].avgPrice
\* several time buckets whose keys were first met out of order, and grade
\* buckets whose order by mean price is not their order by key
C10_Witness ==
    LET td == trendData
        gd == gradeAnalysisData
        fd == filteredData
    IN  /\ Len(td) >= 2 /\ Len(gd) >= 2
        /\ TextLess(TrendKey(fd[2]), TrendKey(fd[1]))
        /\ TextLess(gd[2].fullGrade, gd[1].fullGrade)

-----------------------------------------------------------------------------
(* Claims about aggregation *)

\* the k-th smallest of the valid values of prices (k from 1), by counting
KthSmallest(k) ==
    LET V == {i \in 1..Len(prices.items) : ValidPrice(prices.items[i])}
        below(x)  == Cardinality({i \in V : prices.items[i].n < x})
        atMost(x) == Cardinality({i \in V : prices.items[i].n <= x})
    IN  CHOOSE x \in {prices.items[i].n : i \in V} : below(x) < k /\ k <= atMost(x)

\* C9: calculatePriceStats counts only the strictly positive numbers; with none
\* it returns all zeros; else count is their number, min and max their
\* extremes, mean their average rounded to one decimal, median the central
\* element (the average of the two central ones for an even count) rounded to
\* one decimal; the result does not depend on the order of the input.
C9_PriceStatsReference ==
    stats # NoStats =>
        LET V == {i \in 1..Len(prices.items) :
                     prices.items[i].t = "num" /\ prices.items[i].n > 0}
            n == Cardinality(V)
            total == SumSeq([i \in 1..Len(prices.items) |->
                                IF i \in V THEN prices.items[i].n ELSE 0])
        IN  /\ stats = statsFirst
            /\ IF prices.kind # "array" \/ n = 0 THEN stats = ZeroStats
               ELSE /\ stats.count = n
                    /\ \E i \in V : prices.items[i].n = stats.min
                    /\ \A i \in V : stats.min <= prices.items[i].n
                    /\ \E i \in V : prices.items[i].n = stats.max
                    /\ \A i \in V : stats.max >= prices.items[i].n
                    /\ 2 * n * stats.mean - n <= 2 * total
                    /\ 2 * total < 2 * n * stats.mean + n
                    /\ IF n % 2 = 1
                       THEN stats.median = KthSmallest((n + 1) \div 2)
                       ELSE LET two == KthSmallest(n \div 2) + KthSmallest((n \div 2) + 1)
                            IN  2 * stats.median - 1 <= two /\ two <= 2 * stats.median
\* an even count whose central average has a half to round, with fewer valid
\* values than entries and the larger value first
C9_Witness ==
    /\ stats # NoStats /\ stats.count = 2 /\ Len(prices.items) = 4
    /\ stats.min = 1000 /\ stats.max = 2005 /\ stats.median = 1503
    /\ prices.items[1] = Num(2005) /\ prices.items[4] = Null


-----------------------------------------------------------------------------
(* Claims about the forecast *)

\* the least-squares line through the points (i - 1, trend[i].avgPrice), in
\* the textbook form with deviations from the means, at the ordinal x: the
\* value is FittedNum / FittedDen
DevX(n, i) == n * (i - 1) - SumSeq([j \in 1..n |-> j - 1])
DevY(trend, i) ==
    Len(trend) * trend[i].avgPrice - SumSeq([j \in 1..Len(trend) |-> trend[j].avgPrice])
FittedDen(trend) ==
    Len(trend) * SumSeq([i \in 1..Len(trend) |-> DevX(Len(trend), i) * DevX(Len(trend), i)])
FittedNum(trend, x) ==
    LET n  == Len(trend)
        sy == SumSeq([j \in 1..n |-> trend[j].avgPrice])
        sx == SumSeq([j \in 1..n |-> j - 1])
        p  == SumSeq([i \in 1..n |-> DevX(n, i) * DevY(trend, i)])
        q  == SumSeq([i \in 1..n |-> DevX(n, i) * DevX(n, i)])
    IN  sy * q + p * (n * x - sx)

\* C11: forecastData holds exactly three points, the fitted line at the
\* ordinals n, n+1 and n+2, whenever the trend is grouped by observation
\* date and has n >= 2 buckets; it is empty when there are fewer than two
\* buckets or when the trend is grouped by model year; trendDataWithForecast
\* has n + 3 entries in the first case and n entries otherwise.
C11_ForecastSize ==
    LET td  == trendData
        fd  == forecastData
        all == trendDataWithForecast
        n   == Len(td)
    IN  IF trendDateMode = "scraping" /\ n >= 2
        THEN /\ Len(fd) = 3
             /\ \A k \in 1..3 :
                   fd[k].forecastPrice =
                       RoundDiv(FittedNum(td, n + k - 1), FittedDen(td))
             /\ Len(all) = n + 3
        ELSE /\ fd = <<>>
             /\ Len(all) = n
C11_Witness ==
    /\ trendDateMode = "scraping"
    /\ Len(trendData) >= 2
    /\ Len(forecastData) = 3
    /\ Len(trendDataWithForecast) = Len(trendData) + 3


IsProgression(trend) ==
    \A i \in 1..Len(trend) :
        trend[i].avgPrice = trend[1].avgPrice + (i - 1) * (trend[2].avgPrice - trend[1].avgPrice)

\* C12: for n >= 2 buckets whose means are a, a+d, a+2d, ... over the
\* ordinals 0..n-1 the slope is d, the intercept is a and the three forecast
\* prices are a+n*d, a+(n+1)*d and a+(n+2)*d.
C12_ProgressionContinues ==
    (fn # "none" /\ arg.mode = "scraping" /\ Len(arg.trend) >= 2 /\ IsProgression(arg.trend)) =>
        LET n == Len(arg.trend)
            a == arg.trend[1].avgPrice
            d == arg.trend[2].avgPrice - arg.trend[1].avgPrice
        IN  /\ SlopeNum(arg.trend) = d * SlopeDen(n)
            /\ InterceptNum(arg.trend) = a * n * SlopeDen(n)
            /\ Len(out) = 3
            /\ \A k \in 1..3 : out[k].forecastPrice = a + (n + k - 1) * d
\* the means 100, 200, 300 are followed by 400, 500, 600
C12_Witness ==
    /\ fn = "forecastData" /\ arg.mode = "scraping" /\ Len(arg.trend) = 3
    /\ [i \in 1..3 |-> arg.trend[i].avgPrice] = <<1000, 2000, 3000>>
    /\ [k \in 1..3 |-> out[k].forecastPrice] = <<4000, 5000, 6000>>

\* the key of the bucket k days, months or years after the bucket of key
KeyAfter(key, scale, k) ==
    LET y == DigitsValue(SubSeq(key, 1, 4))
        m == IF scale = "yearly" THEN 1 ELSE DigitsValue(SubSeq(key, 6, 7))
        d == IF scale = "daily" THEN DigitsValue(SubSeq(key, 9, 10)) ELSE 1
    IN  IF scale = "yearly" THEN NatText(y + k)
        ELSE IF scale = "monthly"
        THEN NatText(y + ((m + k - 1) \div 12)) \o <<"-">> \o Pad2(((m + k - 1) % 12) + 1)
        ELSE LET day == MakeDay(y, m, d + k)
             IN  NatText(day.y) \o <<"-">> \o Pad2(day.m) \o <<"-">> \o Pad2(day.d)

\* C13: the k-th forecast point (k = 1, 2, 3) has the key of the last
\* observed bucket advanced by k days, months or years, as the scale says, in
\* the shape of the observed keys, across month and year boundaries too; so
\* the forecast keys are strictly increasing and each is strictly greater
\* than every observed key.
C13_ForecastKeysAdvance ==
    (fn # "none" /\ arg.mode = "scraping" /\ Len(arg.trend) >= 2) =>
        LET n == Len(arg.trend) IN
        /\ \A k \in 1..3 : out[k].date = KeyAfter(arg.trend[n].date, arg.scale, k)
        /\ \A k \in 1..2 : TextLess(out[k].date, out[k + 1].date)
        /\ \A k \in 1..3, i \in 1..n : TextLess(arg.trend[i].date, out[k].date)

StatFields == {"avgPrice", "median", "minPrice", "maxPrice"}
\* an observed bucket: the four statistics as numbers, no forecastPrice
IsObserved(e) ==
    /\ "forecastPrice" \notin DOMAIN e
    /\ StatFields \subseteq DOMAIN e
    /\ \A f \in StatFields : e[f] \in Int
\* a forecast point: forecastPrice a number, the four statistics null
IsForecast(e) ==
    /\ "forecastPrice" \in DOMAIN e
    /\ e.forecastPrice \in Int
    /\ StatFields \subseteq DOMAIN e
    /\ \A f \in StatFields : e[f] = Null

\* C14: every entry of trendDataWithForecast is either an observed bucket
\* (avgPrice, median, minPrice, maxPrice, no forecastPrice) or a forecast
\* point (forecastPrice, the four others null), never both, and all observed
\* buckets come before all forecast points.
C14_ObservedThenForecast ==
    LET all == trendDataWithForecast IN
    /\ \A i \in 1..Len(all) : IsObserved(all[i]) # IsForecast(all[i])
    /\ \A i \in 1..Len(all), j \in 1..Len(all) :
          i < j => ~(IsForecast(all[i]) /\ IsObserved(all[j]))
C14_Witness ==
    LET all == trendDataWithForecast IN
    /\ Len(trendData) >= 2 /\ Len(all) = Len(trendData) + 3
    /\ \A i \in 1..Len(all) : IsObserved(all[i]) <=> i <= Len(trendData)
    /\ \A i \in 1..Len(all) : IsForecast(all[i]) <=> i > Len(trendData)

-----------------------------------------------------------------------------
(* Claims about the quality report *)

\* the four checks, as the report's reader understands them
PriceOk(item) == item.price.t = "num" /\ item.price.n > 0
YearOk(item) ==
    item.year.t = "num" /\ item.year.n >= 2010 * Scale /\ item.year.n <= 2026 * Scale
MileageOk(item) == item.mileage.t = "num" /\ item.mileage.n >= 0
NonEmptyText(v) == v.t = "str" /\ Len(v.s) > 0
GradeOk(item) == NonEmptyText(item.normGrade) \/ NonEmptyText(item.origGrade)
FailedChecks(item) ==
    (IF PriceOk(item) THEN 0 ELSE 1) + (IF YearOk(item) THEN 0 ELSE 1)
    + (IF MileageOk(item) THEN 0 ELSE 1) + (IF GradeOk(item) THEN 0 ELSE 1)

RejectedRows ==
    {k \in 1..Len(batch.rows) :
        /\ ~batch.rows[k].nul
        /\ \/ ParsePrice(batch.rows[k].price) = Null
           \/ ParseYear(batch.rows[k].year) = Null
           \/ ParseMileage(batch.rows[k].mileage) = Null}
\* the counts a reader of the report can see: the records that are not
\* valid, and the defects of price, year and mileage
DefectCounts(q) ==
    {q.totalCount - q.validCount}
    \cup (IF "details" \in DOMAIN q
          THEN {q.details.priceIssues, q.details.yearIssues, q.details.mileageIssues,
                q.details.priceIssues + q.details.yearIssues + q.details.mileageIssues}
          ELSE {})

\* C16: the rows of a loaded batch that ingestion rejects because price, year
\* or mileage failed to parse are in no later stage, and their number shows
\* as a count in the quality report of that load.
C16_RejectionCounted ==
    (pc = "processed" /\ batch.kind = "array") =>
        /\ \A k \in RejectedRows : ~HasId(listings.items, k - 1)
        /\ RejectedRows # {} =>
              \E c \in DefectCounts(quality) : c >= Cardinality(RejectedRows)

-----------------------------------------------------------------------------
(* Claims about the export *)

\* a CSV reader: records are split at the line feeds and cells at the commas
\* that stand outside quotes, that is after an even number of double quotes;
\* a cell written in quotes loses them, a doubled quote inside standing for one
SplitOutsideQuotes(text, sep) ==
    LET outside(i) == Cardinality({j \in 1..(i - 1) : text[j] = "\""}) % 2 = 0
        S == {i \in 1..Len(text) : text[i] = sep /\ outside(i)}
        n == Cardinality(S)
        pos(k) == IF k = 0 THEN 0
                  ELSE IF k = n + 1 THEN Len(text) + 1
                  ELSE CHOOSE p \in S : Cardinality({q \in S : q < p}) = k - 1
    IN  [k \in 1..(n + 1) |-> SubSeq(text, pos(k - 1) + 1, pos(k) - 1)]
RECURSIVE HalveQuotes(_)
HalveQuotes(s) ==
    IF s = <<>> THEN <<>>
    ELSE IF Len(s) >= 2 /\ s[1] = "\"" /\ s[2] = "\""
    THEN <<"\"">> \o HalveQuotes(SubSeq(s, 3, Len(s)))
    ELSE <<Head(s)>> \o HalveQuotes(Tail(s))
Unquote(cell) ==
    IF Len(cell) >= 2 /\ cell[1] = "\"" /\ cell[Len(cell)] = "\""
    THEN HalveQuotes(SubSeq(cell, 2, Len(cell) - 1))
    ELSE cell
ReadCsv(text) ==
    LET body  == IF text # <<>> /\ Head(text) = "bom" THEN Tail(text) ELSE text
        lines == SplitOutsideQuotes(body, "\n")
    IN  [r \in 1..Len(lines) |->
            LET cells == SplitOutsideQuotes(lines[r], ",")
            IN  [c \in 1..Len(cells) |-> Unquote(cells[c])]]

\* the field of a listing that a column of the file carries
ListingField ==
    [ modelName |-> "modelName", grade |-> "origGrade", normGrade |-> "normGrade",
      rawPrice |-> "rawPrice", rawYear |-> "rawYear", rawMileage |-> "rawMileage",
      repair |-> "repair", transmission |-> "transmission",
      rawDisplacement |-> "rawDisplacement", matchScore |-> "matchScore",
      capturedAt |-> "capturedAt", sourceUrl |-> "sourceUrl",
      vehicleUrl |-> "vehicleUrl" ]
\* a value as a cell gives it back: its text, nothing for an absent value
CellText(v) == IF v.t \in {"null", "undef"} THEN <<>> ELSE JsString(v)

\* C17: the file written for a collection of listings, read as CSV, has one
\* header line and one record for each listing, and each cell is the value of
\* the listing's field (nothing for an absent value), also for values that
\* hold a comma, a double quote or a line break.
C17_ExportRoundTrip ==
    (fn = "exportToCSV" /\ Len(listings.items) > 0) =>
        LET table == ReadCsv(out2.text)
            n == Len(listings.items)
        IN  /\ out2.emitted
            /\ Len(table) = n + 1
            /\ table[1] = [h \in 1..Len(LegacyKeys) |-> <<LegacyKeys[h]>>]
            /\ \A r \in 1..n :
                  /\ Len(table[r + 1]) = Len(LegacyKeys)
                  /\ \A h \in 1..Len(LegacyKeys) :
                        LegacyKeys[h] \in DOMAIN ListingField =>
                            table[r + 1][h] =
                                CellText(listings.items[r][ListingField[LegacyKeys[h]]])

\* the number a raw match score denotes: itself, or what its text reads as
Denoted(v) ==
    IF v.t = "num" THEN v
    ELSE IF v.t = "str" THEN ParseFloat(v.s)
    ELSE NaN
InUnitInterval(v) == v.t = "num" /\ v.n >= 0 /\ v.n <= Scale
MatchScoreColumn == CHOOSE h \in 1..Len(LegacyKeys) : LegacyKeys[h] = "matchScore"

\* C20: the match score of every listing lies in [0, 1]; it is the raw row's
\* value whenever that value, a text or a number, denotes a number in [0, 1],
\* the endpoints included, and the default 0.8 when the value is absent,
\* unparsable or outside [0, 1]; the exporter writes the same score.
C20_MatchScore ==
    pc = "processed" =>
        /\ \A i \in 1..Len(listings.items) :
              LET item == listings.items[i]
                  raw  == batch.rows[item.id + 1].matchScore
              IN  /\ InUnitInterval(item.matchScore)
                  /\ item.matchScore =
                        (IF InUnitInterval(Denoted(raw)) THEN Denoted(raw)
                         ELSE Num(DefaultMatchScore))
        /\ fn = "exportToCSV" /\ Len(listings.items) > 0 =>
              \A i \in 1..Len(listings.items) :
                  ReadCsv(out2.text)[i + 1][MatchScoreColumn] =
                      JsString(listings.items[i].matchScore)

-----------------------------------------------------------------------------
(* Claims about the transmission category and the grade label *)

\* the word occurs in the text, whatever the case of the letters
Occurs(text, word) ==
    \E i \in 1..(Len(text) - Len(word) + 1) :
        \A j \in 1..Len(word) : Lower(text[i + j - 1]) = word[j]
HasCvtToken(text) == Occurs(text, <<"c", "v", "t">>)
HasManualToken(text) ==
    \/ Occurs(text, <<"m", "t">>) \/ Occurs(text, <<"manual_kana">>)
    \/ Occurs(text, <<"m", "a", "n", "u", "a", "l">>)
HasAutomaticToken(text) ==
    \/ Occurs(text, <<"a", "t">>) \/ Occurs(text, <<"automatic_kana">>)
    \/ Occurs(text, <<"a", "u", "t", "o", "m", "a", "t", "i", "c">>)

\* C18: categorizeTransmission returns one of AT, CVT, MT, other for every
\* input: CVT for a text with a CVT token, even with manual or automatic
\* tokens beside it; else MT for a text with a manual token, even with an
\* automatic token beside it; else AT for a text with an automatic token;
\* other for a text with no token, the empty text and a value that is no text.
C18_TransmissionPriority ==
    fn = "categorizeTransmission" =>
        /\ out \in Categories
        /\ out = (IF arg.t # "str" \/ arg.s = <<>> THEN "other"
                  ELSE IF HasCvtToken(arg.s) THEN "CVT"
                  ELSE IF HasManualToken(arg.s) THEN "MT"
                  ELSE IF HasAutomaticToken(arg.s) THEN "AT"
                  ELSE "other")
\* a text with a manual and an automatic token and no CVT token
C18_Witness ==
    /\ fn = "categorizeTransmission" /\ arg.t = "str"
    /\ HasManualToken(arg.s) /\ HasAutomaticToken(arg.s) /\ ~HasCvtToken(arg.s)
    /\ out = "MT"

\* the rules whose pattern matches the text
MatchingRules(text) ==
    {k \in 1..Len(rcfPatterns) : PatternTest(text, rcfPatterns[k].pattern)}

\* C19: normalizeGradeName returns the label of the first rule, in the order
\* of the list, whose pattern matches the text, also when later rules match;
\* when no rule matches it returns the text without a leading series prefix,
\* without brackets and without surrounding whitespace; the result is never
\* empty: the default label stands for an empty input and an empty cleanup.
C19_FirstRuleWins ==
    (fn = "normalizeGradeName" /\ (arg.t = "str" \/ ~Truthy(arg))) =>
        /\ out.t = "str" /\ out.s # <<>>
        /\ IF ~Truthy(arg) THEN out.s = BaseLabel
           ELSE IF MatchingRules(arg.s) # {}
           THEN \E k \in MatchingRules(arg.s) :
                   /\ \A j \in MatchingRules(arg.s) : k <= j
                   /\ out.s = rcfPatterns[k].normalized
           ELSE LET cleaned == Trim(StripBrackets(StripSeries(arg.s))) IN
                /\ out.s = (IF cleaned = <<>> THEN BaseLabel ELSE cleaned)
                /\ \A i \in 1..Len(out.s) : ~IsBracket(out.s[i])
                /\ ~IsSpace(out.s[1]) /\ ~IsSpace(out.s[Len(out.s)])
\* the text matches the second rule and the last one, the last one's words
\* first: the second rule's label is returned
C19_Witness ==
    /\ fn = "normalizeGradeName" /\ arg.t = "str"
    /\ MatchingRules(arg.s) = {2, 6}
    /\ StartsAt(arg.s, 1, G_RC_50)
    /\ out.s = rcfPatterns[2].normalized


-----------------------------------------------------------------------------
(* Claims about the derived fields of a listing *)

\* the mileage per year the specification asks for: mileage / max(1, age)
ExpectedMileagePerYear(item, cy) ==
    LET age == cy * Scale - item.year.n
    IN  JsDiv(item.mileage.n, IF age > Scale THEN age ELSE Scale)
\* the value is a finite number
Finite(v) == v.t = "num"

\* C21: for every listing, with cy the clock's year: ageInYears = cy - year;
\* mileagePerYear = mileage / max(1, cy - year) for every accepted mileage, a
\* mileage of 0 included; pricePerCC = price * 10000 / displacement when a
\* displacement (other than 0) was parsed and is absent when none was parsed;
\* no derived field is the result of a division by zero.
C21_DerivedFields ==
    Processed =>
        \A i \in 1..Len(listings.items) :
            LET item == listings.items[i] IN
            \E e \in Entropy :
                LET cy == CurrentYear(e) IN
                /\ item.ageInYears = Num(cy * Scale - item.year.n)
                /\ item.mileagePerYear = ExpectedMileagePerYear(item, cy)
                /\ (item.displacement.t = "num" /\ item.displacement.n # 0)
                       => item.pricePerCC
                              = JsDiv(item.price.n * YenPerMan, item.displacement.n)
                /\ item.displacement = Null => item.pricePerCC = Null
                /\ \A v \in {item.ageInYears, item.mileagePerYear, item.pricePerCC} :
                       v = Null \/ Finite(v)

-----------------------------------------------------------------------------
(* Claims about loading *)

\* C22: a step that shows an alert (the acquisition of the file failed) shows
\* exactly one, ends the load without issuing another request, leaves the
\* listings, the quality report and the filter state as they were and sets
\* loading to false; and whenever loading is true it is false again later.
C22_FailureLeavesState ==
    /\ [][alerts' # alerts =>
             /\ alerts' = alerts + 1
             /\ pending.active /\ ~pending'.active
             /\ ~loading'
             /\ rawData' = rawData
             /\ dataQuality' = dataQuality
             /\ filterVars' = filterVars]_vars
    /\ (loading ~> ~loading)
\* a load failed after another had brought listings
C22_Witness == alerts = 1 /\ ~loading /\ rawData # <<>>

-----------------------------------------------------------------------------
(* Claims about the frame of the user's actions *)

\* a is b with some elements left out: the elements of a are elements of b,
\* whole and in the same order
IsSubSequence(a, b) ==
    \E f \in [1..Len(a) -> 1..Len(b)] :
        /\ \A i \in 1..Len(a) : b[f[i]] = a[i]
        /\ \A i \in 1..(Len(a) - 1) : f[i] < f[i + 1]

\* C23: an action of the user (a filter parameter, the grade display mode, the
\* overview mode, the time scale, the trend date mode) leaves rawData, and with
\* it every field of every listing, as it was; filteredData is always
\* processedData with some listings left out, and processedData is rawData
\* with some listings left out.
C23_FiltersDoNotMutate ==
    /\ [][steps' # steps => rawData' = rawData]_vars
    /\ [](IsSubSequence(filteredData, processedData)
            /\ IsSubSequence(processedData, rawData))
\* the deduplication dropped a listing and the filter another
C23_Witness ==
    /\ steps > 0
    /\ Len(filteredData) >= 1
    /\ Len(filteredData) < Len(processedData)
    /\ Len(processedData) < Len(rawData)

-----------------------------------------------------------------------------
(* Claims about the keys of the trend *)

\* key is YYYY-MM-DD, YYYY-MM or YYYY, by the scale
HasKeyShape(key, scale) ==
    LET width == CASE scale = "daily" -> 10 [] scale = "monthly" -> 7 [] OTHER -> 4
    IN  /\ Len(key) = width
        /\ \A i \in 1..width :
              IF i \in {5, 8} THEN key[i] = "-" ELSE IsDigit(key[i])

\* C24: in observation-date mode every key of trendData has the fixed-width,
\* zero-padded shape of the time scale, whatever text the capture time of
\* a listing holds.
C24_TrendKeyShape ==
    (trendDateMode = "scraping" /\ ~loading) =>
        \A i \in 1..Len(trendData) : HasKeyShape(trendData[i].date, timeScale)

-----------------------------------------------------------------------------
(* Claims about the quality report of a load *)

\* C25: every listing processCarData returns passes the four checks of
\* checkDataQuality, so the report computed on the listings at load time has
\* validCount = totalCount and, when there is a listing, a score of 100, no
\* defect counted for any field and the one message that there is no issue.
C25_IngestedAllValid ==
    Processed =>
        LET items == listings.items IN
        /\ \A i \in 1..Len(items) : FailedChecks(items[i]) = 0
        /\ quality.totalCount = Len(items)
        /\ quality.validCount = quality.totalCount
        /\ Len(items) > 0 =>
              /\ quality.qualityScore = 100 * Scale
              /\ quality.details = [priceIssues |-> 0, yearIssues |-> 0,
                                    mileageIssues |-> 0, gradeIssues |-> 0]
              /\ quality.issues = <<"no issues">>
\* a batch of which one row was rejected and one became a listing
C25_Witness ==
    /\ Processed
    /\ Len(batch.rows) = 2 /\ Len(listings.items) = 1
    /\ quality.qualityScore = 100 * Scale

-----------------------------------------------------------------------------
(* Claims about grouping *)

\* the key gradeAnalysisData files a listing under
GradeKey(item) == JsString(TargetGrade(item, showNormalizedGrades))
\* how many of the filtered listings are filed under the key
FiledUnderDate(key) ==
    Cardinality({i \in 1..Len(filteredData) : TrendKey(filteredData[i]) = key})
FiledUnderGrade(key) ==
    Cardinality({i \in 1..Len(filteredData) : GradeKey(filteredData[i]) = key})

\* C26: in trendData and in gradeAnalysisData every filtered listing is in
\* exactly one bucket, no bucket is empty, each bucket counts the listings
\* filed under its key and the counts sum to the number of filtered listings.
C26_GroupingConserves ==
    LET fd == filteredData
        td == trendData
        gd == gradeAnalysisData
    IN  /\ \A i \in 1..Len(fd) :
              /\ Cardinality({j \in 1..Len(td) : td[j].date = TrendKey(fd[i])}) = 1
              /\ Cardinality({j \in 1..Len(gd) : gd[j].fullGrade = GradeKey(fd[i])}) = 1
        /\ \A j \in 1..Len(td) :
              td[j].count >= 1 /\ td[j].count = FiledUnderDate(td[j].date)
        /\ \A j \in 1..Len(gd) :
              gd[j].count >= 1 /\ gd[j].count = FiledUnderGrade(gd[j].fullGrade)
        /\ SumSeq([j \in 1..Len(td) |-> td[j].count]) = Len(fd)
        /\ SumSeq([j \in 1..Len(gd) |-> gd[j].count]) = Len(fd)
\* three listings in two time buckets and three grade buckets
C26_Witness ==
    /\ Len(filteredData) = 3
    /\ Len(trendData) = 2
    /\ Len(gradeAnalysisData) = 3

-----------------------------------------------------------------------------
(* Claims about the denominators of the regression *)

MaxOrdinals == 10

\* C27: for n >= 2 buckets the denominator n * sum(x^2) - sum(x)^2 over the
\* ordinals 0 .. n-1 is positive (it is n^2 (n^2 - 1) / 12), so the slope and
\* the intercept are quotients by a non-zero number and each forecast price
\* is the one number nearest to slope * idx + intercept, whatever the means.
C27_DenominatorPositive ==
    /\ \A n \in 2..MaxOrdinals :
          SlopeDen(n) > 0 /\ 12 * SlopeDen(n) = n * n * (n * n - 1)
    /\ (fn # "none" /\ arg.mode = "scraping" /\ Len(arg.trend) >= 2) =>
          /\ Len(out) = ForecastCount
          /\ \A i \in 1..Len(out) :
                LET n   == Len(arg.trend)
                    den == n * SlopeDen(n)
                    num == n * SlopeNum(arg.trend) * (n + i - 1) + InterceptNum(arg.trend)
                    p   == out[i].forecastPrice
                IN  /\ den > 0
                    /\ 2 * den * p <= 2 * num + den
                    /\ 2 * num + den < 2 * den * p + 2 * den
\* a forecast from the longest trend, on a line that is not level
C27_Witness ==
    /\ fn = "forecastData" /\ arg.mode = "scraping"
    /\ Len(arg.trend) = MaxBuckets
    /\ Len(out) = ForecastCount
    /\ out[1].forecastPrice # out[2].forecastPrice

-----------------------------------------------------------------------------
(* Claims about the grade selection *)

NoDuplicates(xs) == \A i, j \in 1..Len(xs) : xs[i] = xs[j] => i = j
AllWithin(xs, ys) == \A i \in 1..Len(xs) : SeqIncludes(ys, xs[i])

\* C28: in every state of the dashboard selectedGrades holds no grade twice
\* and only grades of availableGrades, and whenever handleSelectAllGrades
\* would clear the selection (the two lengths agree) every available grade is
\* selected.
C28_SelectionWithinAvailable ==
    /\ NoDuplicates(selectedGrades)
    /\ AllWithin(selectedGrades, availableGrades)
    /\ Len(selectedGrades) = Len(availableGrades)
          => AllWithin(availableGrades, selectedGrades)

-----------------------------------------------------------------------------
(* Claims about the reset of the filters *)

\* C29: after the 'reset filters' action, from any state of the dashboard and
\* in either grade display mode, every listing of the deduplicated collection
\* passes the filter: filteredData equals processedData.
C29_ResetShowsAll ==
    [][ResetFilters => (filteredData = processedData)']_vars

-----------------------------------------------------------------------------
(* Claims about normalising a label twice *)

\* C30: normalizeGradeName is idempotent: for every grade text g,
\* normalizeGradeName(normalizeGradeName(g)) = normalizeGradeName(g).
C30_NormalizeIdempotent ==
    (fn = "normalizeGradeName" /\ IsString(arg) /\ out2 # NotCalled) => out2 = out
=============================================================================
